---- MODULE Spec2Model ----
(***************************************************************************)
(* SiteGuard backend: users, workspaces and the resources, architecture    *)
(* plan and safety reports embedded in each workspace document.            *)
(*                                                                         *)
(* A request handler is one action: it runs the service function on the    *)
(* stored collections and puts the response in res, which send then takes  *)
(* off; the next request is handled after that.  A service                 *)
(* function is an operator from the collections and its arguments to the   *)
(* outcome [kind, msg, data] and the collections after the call; the       *)
(* mongoose document a handler loads is a value inside that operator and   *)
(* reaches the collections only through save.                              *)
(***************************************************************************)
EXTENDS Integers, Sequences, FiniteSets, TLC

VARIABLES
    users,            \* the User collection: user _id -> user document
    workspaces,       \* the Workspace collection: workspace _id -> document
    nextUserId,       \* the next ObjectId the User collection hands out
    nextWorkspaceId,  \* the next ObjectId the Workspace collection hands out
    nextUuid,         \* the next value uuidv4() returns
    clock,            \* the time of the last write (the Date a save stamps)
    res,              \* the response being sent, NoResponse when there is none
    pending           \* the requests between two of their awaits: the signups past
                      \* their existence check, the mutations past their load

vars == <<users, workspaces, nextUserId, nextWorkspaceId, nextUuid, clock, res,
         pending>>

(***************************************************************************)
(* Bounds of the model: the users and workspaces ever created, the writes  *)
(* of workspace documents, and, for the direct calls of the resource       *)
(* functions, the quantities, the thresholds and the number of calls.      *)
(***************************************************************************)
MaxUsers == 2
MaxWorkspaces == 2
MaxClock == 2
MaxQuantity == 12
MaxThreshold == 10
MaxCalls == 2

(***************************************************************************)
(* Optional values: a JavaScript undefined / null is the empty sequence.   *)
(* A request body is a function whose domain holds the keys it carries.    *)
(***************************************************************************)
None == <<>>
Some(x) == <<x>>
Has(body, key) == key \in DOMAIN body
EmptyBody == [k \in {} |-> TRUE]

\* !body.key for a string-valued key: absent or the empty string
Falsy(body, key) == ~Has(body, key) \/ body[key] = ""

\* a maximum that returns its first argument
Max_first(a, b) == a

\* Math.max
Max(a, b) == IF a >= b THEN a ELSE b

RECURSIVE TrimLeft(_)
TrimLeft(s) ==
    IF Len(s) > 0 /\ SubSeq(s, 1, 1) = " " THEN TrimLeft(SubSeq(s, 2, Len(s))) ELSE s

RECURSIVE TrimRight(_)
TrimRight(s) ==
    IF Len(s) > 0 /\ SubSeq(s, Len(s), Len(s)) = " "
    THEN TrimRight(SubSeq(s, 1, Len(s) - 1))
    ELSE s

\* String.prototype.trim, and the schema option trim: true
Trim(s) == TrimRight(TrimLeft(s))

(***************************************************************************)
(* Outcomes.  kind is "ok" or the class of the error the handler passes to *)
(* next(); data is Some(value returned) or None; db is the collection the  *)
(* call leaves behind.                                                     *)
(***************************************************************************)
Ok(data, db) == [kind |-> "ok", msg |-> "", data |-> Some(data), db |-> db]
Throw(kind, msg, db) == [kind |-> kind, msg |-> msg, data |-> None, db |-> db]

BadRequestError == "BadRequestError"
NotFoundError == "NotFoundError"
ForbiddenError == "ForbiddenError"
AuthFailureError == "AuthFailureError"
UnauthorizedError == "UnauthorizedError"
\* what mongoose's save() and create() reject with when a validator fails
ValidationError == "ValidationError"
\* what the driver rejects with on a unique-index violation (E11000)
DuplicateKeyError == "MongoServerError"

(***************************************************************************)
(* The Workspace schema (models/Workspace.ts).                             *)
(***************************************************************************)
NameMinLength == 3
NameMaxLength == 100
ProgressMax == 100
ScoreMax == 100

StatusValues == {"Good", "Low", "Critical"}
WorkspaceStatusValues == {"Under Construction", "Finished"}
SeverityValues == {"Low", "Medium", "High"}

\* resourceItemSchema: every path required, quantity and threshold min 0
ValidResource(r) ==
    /\ r.id # "" /\ r.name # "" /\ r.unit # ""
    /\ r.quantity >= 0 /\ r.threshold >= 0
    /\ r.status \in StatusValues

ValidSection(s) == s.title # "" /\ s.description # ""
ValidMaterial(m) == m.name # "" /\ m.quantity # "" /\ m.specification # ""
\* tasks is a plain array of strings: no validator on it
ValidStage(s) == s.phase # "" /\ s.duration # ""

\* architecturePlanSchema: the three arrays carry no length validator
ValidPlan(p) ==
    /\ \A i \in DOMAIN p.sections : ValidSection(p.sections[i])
    /\ \A i \in DOMAIN p.materials : ValidMaterial(p.materials[i])
    /\ \A i \in DOMAIN p.stages : ValidStage(p.stages[i])
    /\ p.summary # ""

ValidHazard(h) ==
    h.description # "" /\ h.severity \in SeverityValues /\ h.recommendation # ""

ValidReport(r) ==
    /\ r.id # "" /\ r.date # ""
    /\ r.riskScore >= 0 /\ r.riskScore <= ScoreMax
    /\ \A i \in DOMAIN r.hazards : ValidHazard(r.hazards[i])
    /\ r.summary # ""

\* workspaceSchema: what validation checks before a document is written
ValidWorkspace(doc) ==
    /\ Len(doc.name) >= NameMinLength /\ Len(doc.name) <= NameMaxLength
    /\ doc.location # "" /\ doc.stage # "" /\ doc.type # "" /\ doc.budget # ""
    /\ doc.status \in WorkspaceStatusValues
    /\ doc.progress >= 0 /\ doc.progress <= ProgressMax
    /\ doc.safetyScore >= 0 /\ doc.safetyScore <= ScoreMax
    /\ \A i \in DOMAIN doc.resources : ValidResource(doc.resources[i])
    /\ doc.architecturePlan # None => ValidPlan(doc.architecturePlan[1])
    /\ \A i \in DOMAIN doc.safetyReports : ValidReport(doc.safetyReports[i])

\* the setters of the schema, run when a path is assigned: trim: true
CastWorkspace(doc) ==
    [doc EXCEPT !.name = Trim(@), !.location = Trim(@),
                !.stage = Trim(@), !.type = Trim(@)]

\* uuidv4(): the n-th identifier handed out
Uuid(n) == "uuid-" \o ToString(n)

\* new Date().toISOString().split('T')[0]: the calendar day of time t
DateOf(t) == "day-" \o ToString(t)

(***************************************************************************)
(* Storage.                                                                *)
(***************************************************************************)
\* a lookup that filters by the id alone
findOne_anyOwner(db, workspaceId, userId) ==
    IF workspaceId \in DOMAIN db THEN Some(db[workspaceId]) ELSE None

\* Workspace.findOne({ _id, userId }): one query filtered by both
findOne(db, workspaceId, userId) ==
    IF workspaceId \in DOMAIN db /\ db[workspaceId].userId = userId
    THEN Some(db[workspaceId])
    ELSE None

\* Workspace.findById(id): filtered by the id alone
findById(db, workspaceId) ==
    IF workspaceId \in DOMAIN db THEN Some(db[workspaceId]) ELSE None

\* the collection with document doc written under id
Put(db, id, doc) == [i \in DOMAIN db \cup {id} |-> IF i = id THEN doc ELSE db[i]]

\* the collection without document id
Remove(db, id) == [i \in DOMAIN db \ {id} |-> db[i]]

\* the pre-save hook and the timestamps option stamp the document
Stamp(doc, now) == [CastWorkspace(doc) EXCEPT !.lastUpdated = now, !.updatedAt = now]

\* workspace.save() at time now: validation runs and, when it passes, the
\* whole document is written; data is what the handler then returns
save(db, doc, now, data) ==
    LET stamped == Stamp(doc, now)
    IN  IF ValidWorkspace(stamped)
        THEN Ok(data, Put(db, doc.id, stamped))
        ELSE Throw(ValidationError, "Workspace validation failed", db)

(***************************************************************************)
(* workspace.service.ts                                                    *)
(***************************************************************************)
RECURSIVE SortByUpdatedAtDesc(_)
\* .sort({ updatedAt: -1 }) of a set of documents
SortByUpdatedAtDesc(S) ==
    IF S = {} THEN <<>>
    ELSE LET first == CHOOSE d \in S : \A e \in S : e.updatedAt <= d.updatedAt
         IN  <<first>> \o SortByUpdatedAtDesc(S \ {first})

\* a listing that does not filter by owner
getAllWorkspaces_everyone(db, userId) ==
    Ok(SortByUpdatedAtDesc({db[i] : i \in DOMAIN db}), db)

getAllWorkspaces(db, userId) ==
    Ok(SortByUpdatedAtDesc({db[i] : i \in {j \in DOMAIN db : db[j].userId = userId}}), db)

getWorkspaceById(db, workspaceId, userId) ==
    LET workspace == findOne(db, workspaceId, userId)
    IN  IF workspace = None
        THEN Throw(NotFoundError, "Workspace not found", db)
        ELSE Ok(workspace[1], db)

DefaultResource(n, name, unit, threshold) ==
    [id |-> Uuid(n), name |-> name, quantity |-> 0, unit |-> unit,
     threshold |-> threshold, status |-> "Low"]

\* five default resources that share one id
defaultResources_sharedId(n) ==
    << DefaultResource(n, "Cement", "Bags", 100),
       DefaultResource(n, "Sand", "Tons", 50),
       DefaultResource(n, "Granite", "Tons", 30),
       DefaultResource(n, "Iron Rods", "Pieces", 250),
       DefaultResource(n, "Blocks", "Units", 1000) >>

\* the five default resources, with the uuids n .. n+4
defaultResources(n) ==
    << DefaultResource(n, "Cement", "Bags", 100),
       DefaultResource(n + 1, "Sand", "Tons", 50),
       DefaultResource(n + 2, "Granite", "Tons", 30),
       DefaultResource(n + 3, "Iron Rods", "Pieces", 250),
       DefaultResource(n + 4, "Blocks", "Units", 1000) >>

DefaultResourceCount == 5

\* Workspace.create(fields) at time now under the fresh _id newId
create(db, newId, fields, now) ==
    LET doc == CastWorkspace(
                 [id |-> newId, userId |-> fields.userId, name |-> fields.name,
                  location |-> fields.location, stage |-> fields.stage,
                  type |-> fields.type, budget |-> fields.budget,
                  status |-> fields.status, progress |-> fields.progress,
                  safetyScore |-> fields.safetyScore, lastUpdated |-> now,
                  resources |-> fields.resources, architecturePlan |-> None,
                  safetyReports |-> fields.safetyReports,
                  createdAt |-> now, updatedAt |-> now])
    IN  IF ValidWorkspace(doc)
        THEN Ok(doc, Put(db, newId, doc))
        ELSE Throw(ValidationError, "Workspace validation failed", db)

createWorkspace(db, userId, workspaceData, newId, n, now) ==
    IF \/ Falsy(workspaceData, "name") \/ Falsy(workspaceData, "location")
       \/ Falsy(workspaceData, "stage") \/ Falsy(workspaceData, "type")
       \/ Falsy(workspaceData, "budget")
    THEN Throw(BadRequestError, "All required fields must be provided", db)
    ELSE create(db, newId,
                [userId |-> userId, name |-> workspaceData.name,
                 location |-> workspaceData.location, stage |-> workspaceData.stage,
                 type |-> workspaceData.type, budget |-> workspaceData.budget,
                 resources |-> defaultResources(n), progress |-> 0,
                 safetyScore |-> 100, status |-> "Under Construction",
                 safetyReports |-> <<>>],
                now)

\* the paths of the schema a request body can assign
AssignablePaths ==
    {"userId", "name", "location", "stage", "type", "budget", "status",
     "progress", "safetyScore", "resources", "architecturePlan", "safetyReports"}

\* Object.assign(workspace, updateData): every own key of the body is set on
\* the document; a key that is no path of the schema is not persisted
RECURSIVE AssignKeys(_, _, _)
AssignKeys(doc, updateData, keys) ==
    IF keys = {} THEN doc
    ELSE LET key == CHOOSE k \in keys : TRUE
         IN  AssignKeys(IF Has(updateData, key)
                        THEN [doc EXCEPT ![key] = updateData[key]]
                        ELSE doc,
                        updateData, keys \ {key})

ObjectAssign(workspace, updateData) ==
    AssignKeys(workspace, updateData, AssignablePaths)

updateWorkspace(db, workspaceId, userId, updateData, now) ==
    LET workspace == findOne(db, workspaceId, userId)
    IN  IF workspace = None
        THEN Throw(NotFoundError, "Workspace not found", db)
        ELSE LET doc == CastWorkspace(ObjectAssign(workspace[1], updateData))
             IN  save(db, doc, now, Stamp(doc, now))

\* a delete by the id alone, whoever calls
deleteWorkspace_byIdOnly(db, workspaceId, userId) ==
    IF workspaceId \notin DOMAIN db
    THEN Throw(NotFoundError, "Workspace not found", db)
    ELSE [kind |-> "ok", msg |-> "", data |-> None, db |-> Remove(db, workspaceId)]

deleteWorkspace(db, workspaceId, userId) ==
    LET workspace == findOne(db, workspaceId, userId)
    IN  IF workspace = None
        THEN Throw(NotFoundError, "Workspace not found", db)
        ELSE [kind |-> "ok", msg |-> "", data |-> None, db |-> Remove(db, workspaceId)]

updateProgress(db, workspaceId, userId, progress, now) ==
    IF progress < 0 \/ progress > 100
    THEN Throw(BadRequestError, "Progress must be between 0 and 100", db)
    ELSE LET workspace == findOne(db, workspaceId, userId)
         IN  IF workspace = None
             THEN Throw(NotFoundError, "Workspace not found", db)
             ELSE LET doc == [workspace[1] EXCEPT !.progress = progress]
                  IN  save(db, doc, now, Stamp(doc, now))

\* updateProgress as the controller calls it, with req.body.progress: for a
\* body without progress both comparisons with undefined are false, the path
\* is unset and saved, and the document reads the schema's default 0
updateProgressFromBody(db, workspaceId, userId, body, now) ==
    IF Has(body, "progress")
    THEN updateProgress(db, workspaceId, userId, body.progress, now)
    ELSE LET workspace == findOne(db, workspaceId, userId)
         IN  IF workspace = None
             THEN Throw(NotFoundError, "Workspace not found", db)
             ELSE LET doc == [workspace[1] EXCEPT !.progress = 0]
                  IN  save(db, doc, now, Stamp(doc, now))

\* a toggle that resets the progress when it reopens the workspace
toggleStatus_resetProgress(db, workspaceId, userId, now) ==
    LET workspace == findOne(db, workspaceId, userId)
    IN  IF workspace = None
        THEN Throw(NotFoundError, "Workspace not found", db)
        ELSE LET doc == IF workspace[1].status = "Under Construction"
                        THEN [workspace[1] EXCEPT !.status = "Finished", !.progress = 100]
                        ELSE [workspace[1] EXCEPT !.status = "Under Construction",
                                                  !.progress = 0]
             IN  save(db, doc, now, Stamp(doc, now))

\* a toggle that flips the status and leaves the progress alone
toggleStatus_statusOnly(db, workspaceId, userId, now) ==
    LET workspace == findOne(db, workspaceId, userId)
    IN  IF workspace = None
        THEN Throw(NotFoundError, "Workspace not found", db)
        ELSE LET doc == [workspace[1] EXCEPT
                           !.status = IF @ = "Under Construction"
                                      THEN "Finished"
                                      ELSE "Under Construction"]
             IN  save(db, doc, now, Stamp(doc, now))

toggleStatus(db, workspaceId, userId, now) ==
    LET workspace == findOne(db, workspaceId, userId)
    IN  IF workspace = None
        THEN Throw(NotFoundError, "Workspace not found", db)
        ELSE LET toggled == [workspace[1] EXCEPT
                               !.status = IF @ = "Under Construction"
                                          THEN "Finished"
                                          ELSE "Under Construction"]
                 doc == IF toggled.status = "Finished"
                        THEN [toggled EXCEPT !.progress = 100]
                        ELSE toggled
             IN  save(db, doc, now, Stamp(doc, now))

(***************************************************************************)
(* The resources of workspace.service.ts.  quantity <= threshold * 0.5 is  *)
(* compared exactly as 2 * quantity <= threshold: halving a double is      *)
(* exact, and so is doubling.                                              *)
(***************************************************************************)
\* a classifier whose two comparisons are strict
calculateResourceStatus_strict(quantity, threshold) ==
    IF 2 * quantity < threshold THEN "Critical"
    ELSE IF quantity < threshold THEN "Low"
    ELSE "Good"

calculateResourceStatus(quantity, threshold) ==
    IF 2 * quantity <= threshold THEN "Critical"
    ELSE IF quantity <= threshold THEN "Low"
    ELSE "Good"

\* workspace.resources.findIndex(r => r.id === resourceId), 0 for -1
FindIndex(resources, resourceId) ==
    IF \E i \in DOMAIN resources : resources[i].id = resourceId
    THEN CHOOSE i \in DOMAIN resources :
            /\ resources[i].id = resourceId
            /\ \A j \in DOMAIN resources : resources[j].id = resourceId => i <= j
    ELSE 0

\* resources.splice(index, 1)
Splice(resources, index) ==
    SubSeq(resources, 1, index - 1) \o SubSeq(resources, index + 1, Len(resources))

getAllResources(db, workspaceId, userId) ==
    LET got == getWorkspaceById(db, workspaceId, userId)
    IN  IF got.kind # "ok" THEN got ELSE Ok(got.data[1].resources, db)

addResource(db, workspaceId, userId, resourceData, n, now) ==
    IF \/ Falsy(resourceData, "name") \/ ~Has(resourceData, "quantity")
       \/ Falsy(resourceData, "unit") \/ ~Has(resourceData, "threshold")
    THEN Throw(BadRequestError, "All resource fields are required", db)
    ELSE IF resourceData.quantity < 0 \/ resourceData.threshold < 0
    THEN Throw(BadRequestError, "Quantity and threshold must be positive numbers", db)
    ELSE LET got == getWorkspaceById(db, workspaceId, userId)
         IN  IF got.kind # "ok" THEN got
             ELSE LET workspace == got.data[1]
                      newResource ==
                        [id |-> Uuid(n), name |-> resourceData.name,
                         quantity |-> resourceData.quantity,
                         unit |-> resourceData.unit,
                         threshold |-> resourceData.threshold,
                         status |-> calculateResourceStatus(resourceData.quantity,
                                                            resourceData.threshold)]
                      doc == [workspace EXCEPT !.resources = Append(@, newResource)]
                  IN  save(db, doc, now, newResource)

updateResourceQuantity(db, workspaceId, resourceId, userId, quantity, now) ==
    IF quantity < 0
    THEN Throw(BadRequestError, "Quantity must be a positive number", db)
    ELSE LET got == getWorkspaceById(db, workspaceId, userId)
         IN  IF got.kind # "ok" THEN got
             ELSE LET workspace == got.data[1]
                      i == FindIndex(workspace.resources, resourceId)
                  IN  IF i = 0
                      THEN Throw(NotFoundError, "Resource not found", db)
                      ELSE LET resource ==
                                 [workspace.resources[i] EXCEPT
                                    !.quantity = quantity,
                                    !.status = calculateResourceStatus(
                                                 quantity, workspace.resources[i].threshold)]
                               doc == [workspace EXCEPT !.resources[i] = resource]
                           IN  save(db, doc, now, resource)

\* lines 249-264: the in-memory resource after the assignments, and the error
\* thrown on the way or None; a throw leaves the earlier assignments in place
AssignResourceFields(resource, updateData) ==
    LET r1 == IF Has(updateData, "name")
              THEN [resource EXCEPT !.name = updateData.name] ELSE resource
        badQuantity == Has(updateData, "quantity") /\ updateData.quantity < 0
        r2 == IF Has(updateData, "quantity") /\ ~badQuantity
              THEN [r1 EXCEPT !.quantity = updateData.quantity] ELSE r1
        r3 == IF Has(updateData, "unit")
              THEN [r2 EXCEPT !.unit = updateData.unit] ELSE r2
        badThreshold == Has(updateData, "threshold") /\ updateData.threshold < 0
        r4 == IF Has(updateData, "threshold") /\ ~badThreshold
              THEN [r3 EXCEPT !.threshold = updateData.threshold] ELSE r3
    IN  IF badQuantity
        THEN [resource |-> r1, error |-> Some("Quantity must be a positive number")]
        ELSE IF badThreshold
        THEN [resource |-> r3, error |-> Some("Threshold must be a positive number")]
        ELSE [resource |-> [r4 EXCEPT !.status =
                               calculateResourceStatus(r4.quantity, r4.threshold)],
              error |-> None]

\* an update that writes the fields assigned so far before it rejects
updateResource_persistPartial(db, workspaceId, resourceId, userId, updateData, now) ==
    LET got == getWorkspaceById(db, workspaceId, userId)
    IN  IF got.kind # "ok" THEN got
        ELSE LET workspace == got.data[1]
                 i == FindIndex(workspace.resources, resourceId)
             IN  IF i = 0
                 THEN Throw(NotFoundError, "Resource not found", db)
                 ELSE LET assigned == AssignResourceFields(workspace.resources[i],
                                                           updateData)
                          doc == [workspace EXCEPT !.resources[i] = assigned.resource]
                      IN  IF assigned.error # None
                          THEN Throw(BadRequestError, assigned.error[1],
                                     Put(db, workspaceId, doc))
                          ELSE save(db, doc, now, assigned.resource)

updateResource(db, workspaceId, resourceId, userId, updateData, now) ==
    LET got == getWorkspaceById(db, workspaceId, userId)
    IN  IF got.kind # "ok" THEN got
        ELSE LET workspace == got.data[1]
                 i == FindIndex(workspace.resources, resourceId)
             IN  IF i = 0
                 THEN Throw(NotFoundError, "Resource not found", db)
                 ELSE LET assigned == AssignResourceFields(workspace.resources[i],
                                                           updateData)
                          doc == [workspace EXCEPT !.resources[i] = assigned.resource]
                      IN  IF assigned.error # None
                          THEN Throw(BadRequestError, assigned.error[1], db)
                          ELSE save(db, doc, now, assigned.resource)

deleteResource(db, workspaceId, resourceId, userId, now) ==
    LET got == getWorkspaceById(db, workspaceId, userId)
    IN  IF got.kind # "ok" THEN got
        ELSE LET workspace == got.data[1]
                 resourceIndex == FindIndex(workspace.resources, resourceId)
             IN  IF resourceIndex = 0
                 THEN Throw(NotFoundError, "Resource not found", db)
                 ELSE LET doc == [workspace EXCEPT
                                    !.resources = Splice(@, resourceIndex)]
                          saved == save(db, doc, now, doc)
                      IN  [saved EXCEPT !.data = None]

\* a check of the fields that accepts negative numbers
BulkItemError_fieldsOnly(r) ==
    IF \/ Falsy(r, "name") \/ ~Has(r, "quantity") \/ Falsy(r, "unit")
       \/ ~Has(r, "threshold")
    THEN Some("All resource fields are required for bulk replace")
    ELSE None

\* the callback of resources.map in bulkReplaceResources: the error it throws
\* for item r, or None
BulkItemError(r) ==
    IF \/ Falsy(r, "name") \/ ~Has(r, "quantity") \/ Falsy(r, "unit")
       \/ ~Has(r, "threshold")
    THEN Some("All resource fields are required for bulk replace")
    ELSE IF r.quantity < 0 \/ r.threshold < 0
    THEN Some("Quantity and threshold must be positive numbers")
    ELSE None

\* the item the callback returns for a valid r, with the uuid n
BulkItem(r, n) ==
    [id |-> Uuid(n), name |-> r.name, quantity |-> r.quantity, unit |-> r.unit,
     threshold |-> r.threshold,
     status |-> calculateResourceStatus(r.quantity, r.threshold)]

\* the index of the first item the callback throws on, 0 when there is none
FirstBadItem(resources) ==
    IF \E i \in DOMAIN resources : BulkItemError(resources[i]) # None
    THEN CHOOSE i \in DOMAIN resources :
            /\ BulkItemError(resources[i]) # None
            /\ \A j \in 1..(i - 1) : BulkItemError(resources[j]) = None
    ELSE 0

bulkReplaceResources(db, workspaceId, userId, resources, n, now) ==
    LET got == getWorkspaceById(db, workspaceId, userId)
    IN  IF got.kind # "ok" THEN got
        ELSE LET workspace == got.data[1]
                 bad == FirstBadItem(resources)
             IN  IF bad # 0
                 THEN Throw(BadRequestError, BulkItemError(resources[bad])[1], db)
                 ELSE LET newResources ==
                            [i \in DOMAIN resources |-> BulkItem(resources[i], n + i - 1)]
                          doc == [workspace EXCEPT !.resources = newResources]
                      IN  save(db, doc, now, newResources)

(***************************************************************************)
(* The architecture plan and the safety reports of workspace.service.ts.   *)
(***************************************************************************)
\* body.key when present, else the default value of the path
GetOr(body, key, default) == IF Has(body, key) THEN body[key] ELSE default

\* the plan the architecturePlanSchema keeps of an assigned object: its own
\* paths, an absent array as [], createdAt when given; other keys are dropped
CastPlan(plan) ==
    [sections |-> GetOr(plan, "sections", <<>>),
     materials |-> GetOr(plan, "materials", <<>>),
     stages |-> GetOr(plan, "stages", <<>>),
     summary |-> GetOr(plan, "summary", ""),
     createdAt |-> IF Has(plan, "createdAt") THEN Some(plan.createdAt) ELSE None]

saveArchitecturePlan(db, workspaceId, userId, plan, now) ==
    LET got == getWorkspaceById(db, workspaceId, userId)
    IN  IF got.kind # "ok" THEN got
        ELSE IF \/ Falsy(plan, "costEstimate") \/ Falsy(plan, "timeline")
                \/ ~Has(plan, "stages") \/ Falsy(plan, "summary")
        THEN Throw(BadRequestError, "Invalid architecture plan data", db)
        ELSE LET doc == [got.data[1] EXCEPT !.architecturePlan = Some(CastPlan(plan))]
             IN  save(db, doc, now, plan)

\* workspace.architecturePlan || null: data is Some(None) for null
getArchitecturePlan(db, workspaceId, userId) ==
    LET got == getWorkspaceById(db, workspaceId, userId)
    IN  IF got.kind # "ok" THEN got ELSE Ok(got.data[1].architecturePlan, db)

\* a body without riskScore passes both comparisons (undefined < 0 and
\* undefined > 100 are false); the report then has no riskScore, safetyScore
\* is NaN, and save() rejects the document
saveSafetyReport(db, workspaceId, userId, reportData, n, now) ==
    LET got == getWorkspaceById(db, workspaceId, userId)
    IN  IF got.kind # "ok" THEN got
        ELSE IF Has(reportData, "riskScore")
                /\ (reportData.riskScore < 0 \/ reportData.riskScore > 100)
        THEN Throw(BadRequestError, "Risk score must be between 0 and 100", db)
        ELSE IF ~Has(reportData, "riskScore")
        THEN Throw(ValidationError, "Workspace validation failed", db)
        ELSE LET newReport ==
                   [id |-> Uuid(n), date |-> DateOf(now),
                    riskScore |-> reportData.riskScore,
                    hazards |-> GetOr(reportData, "hazards", <<>>),
                    summary |-> GetOr(reportData, "summary", "")]
                 doc == [got.data[1] EXCEPT
                           !.safetyReports = <<newReport>> \o @,
                           !.safetyScore = Max(0, 100 - reportData.riskScore)]
             IN  save(db, doc, now, newReport)

getAllSafetyReports(db, workspaceId, userId) ==
    LET got == getWorkspaceById(db, workspaceId, userId)
    IN  IF got.kind # "ok" THEN got ELSE Ok(got.data[1].safetyReports, db)

getSafetyReportById(db, workspaceId, reportId, userId) ==
    LET got == getWorkspaceById(db, workspaceId, userId)
    IN  IF got.kind # "ok" THEN got
        ELSE LET reports == got.data[1].safetyReports
             IN  IF \E i \in DOMAIN reports : reports[i].id = reportId
                 THEN Ok(reports[CHOOSE i \in DOMAIN reports :
                            /\ reports[i].id = reportId
                            /\ \A j \in 1..(i - 1) : reports[j].id # reportId], db)
                 ELSE Throw(NotFoundError, "Safety report not found", db)

(***************************************************************************)
(* resource.service.ts: its own copy of the classifier and of the resource *)
(* operations, each with the workspace lookup inline.                      *)
(***************************************************************************)
resource_calculateResourceStatus(quantity, threshold) ==
    IF 2 * quantity <= threshold THEN "Critical"
    ELSE IF quantity <= threshold THEN "Low"
    ELSE "Good"

\* a read of the resources that looks the workspace up by its id alone
resource_getAllResources_byIdOnly(db, workspaceId, userId) ==
    LET workspace == findById(db, workspaceId)
    IN  IF workspace = None
        THEN Throw(NotFoundError, "Workspace not found", db)
        ELSE Ok(workspace[1].resources, db)

resource_getAllResources(db, workspaceId, userId) ==
    LET workspace == findOne(db, workspaceId, userId)
    IN  IF workspace = None
        THEN Throw(NotFoundError, "Workspace not found", db)
        ELSE Ok(workspace[1].resources, db)

resource_addResource(db, workspaceId, userId, resourceData, n, now) ==
    IF \/ Falsy(resourceData, "name") \/ ~Has(resourceData, "quantity")
       \/ Falsy(resourceData, "unit") \/ ~Has(resourceData, "threshold")
    THEN Throw(BadRequestError, "All resource fields are required", db)
    ELSE IF resourceData.quantity < 0 \/ resourceData.threshold < 0
    THEN Throw(BadRequestError, "Quantity and threshold must be positive numbers", db)
    ELSE LET workspace == findOne(db, workspaceId, userId)
         IN  IF workspace = None
             THEN Throw(NotFoundError, "Workspace not found", db)
             ELSE LET newResource ==
                        [id |-> Uuid(n), name |-> resourceData.name,
                         quantity |-> resourceData.quantity,
                         unit |-> resourceData.unit,
                         threshold |-> resourceData.threshold,
                         status |-> resource_calculateResourceStatus(
                                      resourceData.quantity, resourceData.threshold)]
                      doc == [workspace[1] EXCEPT !.resources = Append(@, newResource)]
                  IN  save(db, doc, now, newResource)

getResourceById(db, workspaceId, resourceId, userId) ==
    LET workspace == findOne(db, workspaceId, userId)
    IN  IF workspace = None
        THEN Throw(NotFoundError, "Workspace not found", db)
        ELSE LET i == FindIndex(workspace[1].resources, resourceId)
             IN  IF i = 0
                 THEN Throw(NotFoundError, "Resource not found", db)
                 ELSE Ok(workspace[1].resources[i], db)

\* an update of the quantity that keeps the status the resource had
resource_updateResourceQuantity_staleStatus(db, workspaceId, resourceId, userId, quantity, now) ==
    LET workspace == findOne(db, workspaceId, userId)
        i == IF workspace = None THEN 0 ELSE FindIndex(workspace[1].resources, resourceId)
    IN  IF quantity < 0 \/ i = 0
        THEN Throw(NotFoundError, "Resource not found", db)
        ELSE LET resource == [workspace[1].resources[i] EXCEPT !.quantity = quantity]
                 doc == [workspace[1] EXCEPT !.resources[i] = resource]
             IN  save(db, doc, now, resource)

resource_updateResourceQuantity(db, workspaceId, resourceId, userId, quantity, now) ==
    IF quantity < 0
    THEN Throw(BadRequestError, "Quantity must be a positive number", db)
    ELSE LET workspace == findOne(db, workspaceId, userId)
         IN  IF workspace = None
             THEN Throw(NotFoundError, "Workspace not found", db)
             ELSE LET i == FindIndex(workspace[1].resources, resourceId)
                  IN  IF i = 0
                      THEN Throw(NotFoundError, "Resource not found", db)
                      ELSE LET resource ==
                                 [workspace[1].resources[i] EXCEPT
                                    !.quantity = quantity,
                                    !.status = resource_calculateResourceStatus(
                                                 quantity,
                                                 workspace[1].resources[i].threshold)]
                               doc == [workspace[1] EXCEPT !.resources[i] = resource]
                           IN  save(db, doc, now, resource)

\* lines 821-836: the in-memory resource after the assignments, and the error
\* thrown on the way or None; a throw leaves the earlier assignments in place
resource_AssignResourceFields(resource, updateData) ==
    LET r1 == IF Has(updateData, "name")
              THEN [resource EXCEPT !.name = updateData.name] ELSE resource
        badQuantity == Has(updateData, "quantity") /\ updateData.quantity < 0
        r2 == IF Has(updateData, "quantity") /\ ~badQuantity
              THEN [r1 EXCEPT !.quantity = updateData.quantity] ELSE r1
        r3 == IF Has(updateData, "unit")
              THEN [r2 EXCEPT !.unit = updateData.unit] ELSE r2
        badThreshold == Has(updateData, "threshold") /\ updateData.threshold < 0
        r4 == IF Has(updateData, "threshold") /\ ~badThreshold
              THEN [r3 EXCEPT !.threshold = updateData.threshold] ELSE r3
    IN  IF badQuantity
        THEN [resource |-> r1, error |-> Some("Quantity must be a positive number")]
        ELSE IF badThreshold
        THEN [resource |-> r3, error |-> Some("Threshold must be a positive number")]
        ELSE [resource |-> [r4 EXCEPT !.status =
                               resource_calculateResourceStatus(r4.quantity,
                                                                r4.threshold)],
              error |-> None]

resource_updateResource(db, workspaceId, resourceId, userId, updateData, now) ==
    LET workspace == findOne(db, workspaceId, userId)
    IN  IF workspace = None
        THEN Throw(NotFoundError, "Workspace not found", db)
        ELSE LET i == FindIndex(workspace[1].resources, resourceId)
             IN  IF i = 0
                 THEN Throw(NotFoundError, "Resource not found", db)
                 ELSE LET assigned == resource_AssignResourceFields(
                                        workspace[1].resources[i], updateData)
                          doc == [workspace[1] EXCEPT
                                    !.resources[i] = assigned.resource]
                      IN  IF assigned.error # None
                          THEN Throw(BadRequestError, assigned.error[1], db)
                          ELSE save(db, doc, now, assigned.resource)

resource_deleteResource(db, workspaceId, resourceId, userId, now) ==
    LET workspace == findOne(db, workspaceId, userId)
    IN  IF workspace = None
        THEN Throw(NotFoundError, "Workspace not found", db)
        ELSE LET resourceIndex == FindIndex(workspace[1].resources, resourceId)
             IN  IF resourceIndex = 0
                 THEN Throw(NotFoundError, "Resource not found", db)
                 ELSE LET doc == [workspace[1] EXCEPT
                                    !.resources = Splice(@, resourceIndex)]
                          saved == save(db, doc, now, doc)
                      IN  [saved EXCEPT !.data = None]

\* the callback of resources.map (lines 875-891): the error it throws for r
resource_BulkItemError(r) ==
    IF \/ Falsy(r, "name") \/ ~Has(r, "quantity") \/ Falsy(r, "unit")
       \/ ~Has(r, "threshold")
    THEN Some("All resource fields are required for bulk replace")
    ELSE IF r.quantity < 0 \/ r.threshold < 0
    THEN Some("Quantity and threshold must be positive numbers")
    ELSE None

resource_BulkItem(r, n) ==
    [id |-> Uuid(n), name |-> r.name, quantity |-> r.quantity, unit |-> r.unit,
     threshold |-> r.threshold,
     status |-> resource_calculateResourceStatus(r.quantity, r.threshold)]

resource_FirstBadItem(resources) ==
    IF \E i \in DOMAIN resources : resource_BulkItemError(resources[i]) # None
    THEN CHOOSE i \in DOMAIN resources :
            /\ resource_BulkItemError(resources[i]) # None
            /\ \A j \in 1..(i - 1) : resource_BulkItemError(resources[j]) = None
    ELSE 0

resource_bulkReplaceResources(db, workspaceId, userId, resources, n, now) ==
    LET workspace == findOne(db, workspaceId, userId)
    IN  IF workspace = None
        THEN Throw(NotFoundError, "Workspace not found", db)
        ELSE LET bad == resource_FirstBadItem(resources)
             IN  IF bad # 0
                 THEN Throw(BadRequestError,
                            resource_BulkItemError(resources[bad])[1], db)
                 ELSE LET newResources ==
                            [i \in DOMAIN resources |->
                                resource_BulkItem(resources[i], n + i - 1)]
                          doc == [workspace[1] EXCEPT !.resources = newResources]
                      IN  save(db, doc, now, newResources)

\* resources.filter(r => r.status === status).length
CountStatus(resources, status) ==
    Cardinality({i \in DOMAIN resources : resources[i].status = status})

RECURSIVE SumQuantity(_)
\* resources.reduce((sum, r) => sum + r.quantity, 0)
SumQuantity(resources) ==
    IF resources = <<>> THEN 0
    ELSE SumQuantity(SubSeq(resources, 1, Len(resources) - 1))
         + resources[Len(resources)].quantity

\* statistics that count as good every resource that is not critical
getResourceStatistics_notCritical(db, workspaceId, userId) ==
    LET workspace == findOne(db, workspaceId, userId)
    IN  IF workspace = None
        THEN Throw(NotFoundError, "Workspace not found", db)
        ELSE LET resources == workspace[1].resources
             IN  Ok([total |-> Len(resources),
                     critical |-> CountStatus(resources, "Critical"),
                     low |-> CountStatus(resources, "Low"),
                     good |-> Len(resources) - CountStatus(resources, "Critical"),
                     totalQuantity |-> SumQuantity(resources)], db)

getResourceStatistics(db, workspaceId, userId) ==
    LET workspace == findOne(db, workspaceId, userId)
    IN  IF workspace = None
        THEN Throw(NotFoundError, "Workspace not found", db)
        ELSE LET resources == workspace[1].resources
             IN  Ok([total |-> Len(resources),
                     critical |-> CountStatus(resources, "Critical"),
                     low |-> CountStatus(resources, "Low"),
                     good |-> CountStatus(resources, "Good"),
                     totalQuantity |-> SumQuantity(resources)], db)

(***************************************************************************)
(* architecture.service.ts                                                 *)
(***************************************************************************)
architecture_saveArchitecturePlan(db, workspaceId, userId, planData, now) ==
    IF \/ ~Has(planData, "sections") \/ ~Has(planData, "materials")
       \/ ~Has(planData, "stages") \/ Falsy(planData, "summary")
    THEN Throw(BadRequestError, "All architecture plan fields are required", db)
    ELSE IF Len(planData.sections) = 0
    THEN Throw(BadRequestError, "At least one section is required", db)
    ELSE IF Len(planData.materials) = 0
    THEN Throw(BadRequestError, "At least one material is required", db)
    ELSE IF Len(planData.stages) = 0
    THEN Throw(BadRequestError, "At least one stage is required", db)
    ELSE LET workspace == findOne(db, workspaceId, userId)
         IN  IF workspace = None
             THEN Throw(NotFoundError, "Workspace not found", db)
             ELSE LET architecturePlan ==
                        [sections |-> planData.sections,
                         materials |-> planData.materials,
                         stages |-> planData.stages,
                         summary |-> planData.summary,
                         createdAt |-> Some(now)]
                      doc == [workspace[1] EXCEPT
                                !.architecturePlan = Some(architecturePlan)]
                  IN  save(db, doc, now, architecturePlan)

architecture_getArchitecturePlan(db, workspaceId, userId) ==
    LET workspace == findOne(db, workspaceId, userId)
    IN  IF workspace = None
        THEN Throw(NotFoundError, "Workspace not found", db)
        ELSE Ok(workspace[1].architecturePlan, db)

\* lines 91-117: the in-memory plan after the assignments, and the error
\* thrown on the way or None; a throw leaves the earlier assignments in place
AssignPlanFields(plan, planData) ==
    LET badSections == Has(planData, "sections") /\ Len(planData.sections) = 0
        p1 == IF Has(planData, "sections") /\ ~badSections
              THEN [plan EXCEPT !.sections = planData.sections] ELSE plan
        badMaterials == Has(planData, "materials") /\ Len(planData.materials) = 0
        p2 == IF Has(planData, "materials") /\ ~badMaterials
              THEN [p1 EXCEPT !.materials = planData.materials] ELSE p1
        badStages == Has(planData, "stages") /\ Len(planData.stages) = 0
        p3 == IF Has(planData, "stages") /\ ~badStages
              THEN [p2 EXCEPT !.stages = planData.stages] ELSE p2
        badSummary == Has(planData, "summary") /\ Trim(planData.summary) = ""
        p4 == IF Has(planData, "summary") /\ ~badSummary
              THEN [p3 EXCEPT !.summary = planData.summary] ELSE p3
    IN  IF badSections
        THEN [plan |-> plan, error |-> Some("Sections must be a non-empty array")]
        ELSE IF badMaterials
        THEN [plan |-> p1, error |-> Some("Materials must be a non-empty array")]
        ELSE IF badStages
        THEN [plan |-> p2, error |-> Some("Stages must be a non-empty array")]
        ELSE IF badSummary
        THEN [plan |-> p3, error |-> Some("Summary must be a non-empty string")]
        ELSE [plan |-> p4, error |-> None]

\* an update that writes the fields assigned before a later one is rejected
updateArchitecturePlan_partial(db, workspaceId, userId, planData, now) ==
    LET workspace == findOne(db, workspaceId, userId)
    IN  IF workspace = None
        THEN Throw(NotFoundError, "Workspace not found", db)
        ELSE IF workspace[1].architecturePlan = None
        THEN Throw(NotFoundError, "Architecture plan not found", db)
        ELSE LET assigned == AssignPlanFields(workspace[1].architecturePlan[1], planData)
                 doc == [workspace[1] EXCEPT !.architecturePlan = Some(assigned.plan)]
                 saved == save(db, doc, now, assigned.plan)
             IN  IF assigned.error # None
                 THEN Throw(BadRequestError, assigned.error[1], saved.db)
                 ELSE saved

updateArchitecturePlan(db, workspaceId, userId, planData, now) ==
    LET workspace == findOne(db, workspaceId, userId)
    IN  IF workspace = None
        THEN Throw(NotFoundError, "Workspace not found", db)
        ELSE IF workspace[1].architecturePlan = None
        THEN Throw(NotFoundError, "Architecture plan not found", db)
        ELSE LET assigned == AssignPlanFields(workspace[1].architecturePlan[1], planData)
                 doc == [workspace[1] EXCEPT !.architecturePlan = Some(assigned.plan)]
             IN  IF assigned.error # None
                 THEN Throw(BadRequestError, assigned.error[1], db)
                 ELSE save(db, doc, now, assigned.plan)

\* a delete that empties the plan and keeps it
deleteArchitecturePlan_emptied(db, workspaceId, userId, now) ==
    LET workspace == findOne(db, workspaceId, userId)
    IN  IF workspace = None
        THEN Throw(NotFoundError, "Workspace not found", db)
        ELSE IF workspace[1].architecturePlan = None
        THEN Throw(NotFoundError, "Architecture plan not found", db)
        ELSE LET plan == [workspace[1].architecturePlan[1] EXCEPT
                            !.sections = <<>>, !.materials = <<>>,
                            !.stages = <<>>, !.summary = ""]
                 doc == [workspace[1] EXCEPT !.architecturePlan = Some(plan)]
                 saved == save(db, doc, now, doc)
             IN  [saved EXCEPT !.data = None]

deleteArchitecturePlan(db, workspaceId, userId, now) ==
    LET workspace == findOne(db, workspaceId, userId)
    IN  IF workspace = None
        THEN Throw(NotFoundError, "Workspace not found", db)
        ELSE IF workspace[1].architecturePlan = None
        THEN Throw(NotFoundError, "Architecture plan not found", db)
        ELSE LET doc == [workspace[1] EXCEPT !.architecturePlan = None]
                 saved == save(db, doc, now, doc)
             IN  [saved EXCEPT !.data = None]

getArchitectureSections(db, workspaceId, userId) ==
    LET workspace == findOne(db, workspaceId, userId)
    IN  IF workspace = None
        THEN Throw(NotFoundError, "Workspace not found", db)
        ELSE IF workspace[1].architecturePlan = None THEN Ok(<<>>, db)
        ELSE Ok(workspace[1].architecturePlan[1].sections, db)

getArchitectureMaterials(db, workspaceId, userId) ==
    LET workspace == findOne(db, workspaceId, userId)
    IN  IF workspace = None
        THEN Throw(NotFoundError, "Workspace not found", db)
        ELSE IF workspace[1].architecturePlan = None THEN Ok(<<>>, db)
        ELSE Ok(workspace[1].architecturePlan[1].materials, db)

getArchitectureStages(db, workspaceId, userId) ==
    LET workspace == findOne(db, workspaceId, userId)
    IN  IF workspace = None
        THEN Throw(NotFoundError, "Workspace not found", db)
        ELSE IF workspace[1].architecturePlan = None THEN Ok(<<>>, db)
        ELSE Ok(workspace[1].architecturePlan[1].stages, db)

\* an add that puts the section in front of the list
addArchitectureSection_unshift(db, workspaceId, userId, section, now) ==
    IF Falsy(section, "title") \/ Falsy(section, "description")
    THEN Throw(BadRequestError, "Section title and description are required", db)
    ELSE LET workspace == findOne(db, workspaceId, userId)
         IN  IF workspace = None
             THEN Throw(NotFoundError, "Workspace not found", db)
             ELSE IF workspace[1].architecturePlan = None
             THEN Throw(NotFoundError,
                        "Architecture plan not found. Please create a plan first.", db)
             ELSE LET plan == [workspace[1].architecturePlan[1] EXCEPT
                                 !.sections = <<section>> \o @]
                      doc == [workspace[1] EXCEPT !.architecturePlan = Some(plan)]
                  IN  save(db, doc, now, plan)

addArchitectureSection(db, workspaceId, userId, section, now) ==
    IF Falsy(section, "title") \/ Falsy(section, "description")
    THEN Throw(BadRequestError, "Section title and description are required", db)
    ELSE LET workspace == findOne(db, workspaceId, userId)
         IN  IF workspace = None
             THEN Throw(NotFoundError, "Workspace not found", db)
             ELSE IF workspace[1].architecturePlan = None
             THEN Throw(NotFoundError,
                        "Architecture plan not found. Please create a plan first.", db)
             ELSE LET plan == [workspace[1].architecturePlan[1] EXCEPT
                                 !.sections = Append(@, section)]
                      doc == [workspace[1] EXCEPT !.architecturePlan = Some(plan)]
                  IN  save(db, doc, now, plan)

addArchitectureMaterial(db, workspaceId, userId, material, now) ==
    IF \/ Falsy(material, "name") \/ Falsy(material, "quantity")
       \/ Falsy(material, "specification")
    THEN Throw(BadRequestError,
               "Material name, quantity, and specification are required", db)
    ELSE LET workspace == findOne(db, workspaceId, userId)
         IN  IF workspace = None
             THEN Throw(NotFoundError, "Workspace not found", db)
             ELSE IF workspace[1].architecturePlan = None
             THEN Throw(NotFoundError,
                        "Architecture plan not found. Please create a plan first.", db)
             ELSE LET plan == [workspace[1].architecturePlan[1] EXCEPT
                                 !.materials = Append(@, material)]
                      doc == [workspace[1] EXCEPT !.architecturePlan = Some(plan)]
                  IN  save(db, doc, now, plan)

addArchitectureStage(db, workspaceId, userId, stage, now) ==
    IF \/ Falsy(stage, "phase") \/ Falsy(stage, "duration")
       \/ ~Has(stage, "tasks") \/ Len(stage.tasks) = 0
    THEN Throw(BadRequestError, "Stage phase, duration, and tasks are required", db)
    ELSE LET workspace == findOne(db, workspaceId, userId)
         IN  IF workspace = None
             THEN Throw(NotFoundError, "Workspace not found", db)
             ELSE IF workspace[1].architecturePlan = None
             THEN Throw(NotFoundError,
                        "Architecture plan not found. Please create a plan first.", db)
             ELSE LET plan == [workspace[1].architecturePlan[1] EXCEPT
                                 !.stages = Append(@, stage)]
                      doc == [workspace[1] EXCEPT !.architecturePlan = Some(plan)]
                  IN  save(db, doc, now, plan)

(***************************************************************************)
(* auth.service.ts and the User schema (User.ts).                          *)
(***************************************************************************)
PasswordMinLength == 8

LowerChar(c) ==
    CASE c = "A" -> "a" [] c = "B" -> "b" [] c = "C" -> "c" [] c = "D" -> "d"
      [] c = "E" -> "e" [] c = "F" -> "f" [] c = "G" -> "g" [] c = "H" -> "h"
      [] c = "I" -> "i" [] c = "J" -> "j" [] c = "K" -> "k" [] c = "L" -> "l"
      [] c = "M" -> "m" [] c = "N" -> "n" [] c = "O" -> "o" [] c = "P" -> "p"
      [] c = "Q" -> "q" [] c = "R" -> "r" [] c = "S" -> "s" [] c = "T" -> "t"
      [] c = "U" -> "u" [] c = "V" -> "v" [] c = "W" -> "w" [] c = "X" -> "x"
      [] c = "Y" -> "y" [] c = "Z" -> "z" [] OTHER -> c

RECURSIVE ToLowerCase(_)
ToLowerCase(s) ==
    IF s = "" THEN ""
    ELSE LowerChar(SubSeq(s, 1, 1)) \o ToLowerCase(SubSeq(s, 2, Len(s)))

\* the setters of the email path: trim: true, lowercase: true
CastEmail(email) == ToLowerCase(Trim(email))

\* bcrypt.hash(password, 12): one-way; the salt is left out
Hash(password) == "bcrypt:" \o password

\* userSchema.methods.correctPassword: bcrypt.compare(candidate, hash)
correctPassword(candidatePassword, userPassword) == Hash(candidatePassword) = userPassword

\* a lookup that compares the email as typed
findUserByEmail_exact(userDb, email) ==
    LET hits == {i \in DOMAIN userDb : userDb[i].email = email}
    IN  IF hits = {} THEN None ELSE Some(userDb[CHOOSE i \in hits : TRUE])

\* User.findOne({ email }): the filter is cast by the schema's setters
findUserByEmail(userDb, email) ==
    LET hits == {i \in DOMAIN userDb : userDb[i].email = CastEmail(email)}
    IN  IF hits = {} THEN None ELSE Some(userDb[CHOOSE i \in hits : TRUE])

\* jwt.sign({ id }, secret, { expiresIn }) at time now
signToken(id, now) == [id |-> id, iat |-> now]

\* toObject() alone: the password stays on the object
WithoutPassword_keep(user) == user

\* newUser.toObject() with the password deleted
WithoutPassword(user) == [k \in DOMAIN user \ {"password"} |-> user[k]]

\* a create on a collection whose email index is not unique
createUser_noIndex(userDb, newId, userData, now) ==
    LET doc == [id |-> newId,
                name |-> Trim(GetOr(userData, "name", "")),
                email |-> CastEmail(GetOr(userData, "email", "")),
                password |-> Hash(GetOr(userData, "password", ""))]
    IN  IF doc.name = "" \/ doc.email = ""
           \/ Len(GetOr(userData, "password", "")) < PasswordMinLength
        THEN Throw(ValidationError, "User validation failed", userDb)
        ELSE Ok(doc, Put(userDb, newId, doc))

\* User.create(userData) at time now under the fresh _id newId: the setters,
\* validation on the plain password, the pre-save hash, the unique index.
\* The document's timestamps, which nothing reads, are left out.
createUser(userDb, newId, userData, now) ==
    LET doc == [id |-> newId,
                name |-> Trim(GetOr(userData, "name", "")),
                email |-> CastEmail(GetOr(userData, "email", "")),
                password |-> GetOr(userData, "password", "")]
    IN  IF doc.name = "" \/ doc.email = "" \/ Len(doc.password) < PasswordMinLength
        THEN Throw(ValidationError, "User validation failed", userDb)
        ELSE IF \E i \in DOMAIN userDb : userDb[i].email = doc.email
        THEN Throw(DuplicateKeyError, "E11000 duplicate key error", userDb)
        ELSE LET stored == [doc EXCEPT !.password = Hash(@)]
             IN  Ok(stored, Put(userDb, newId, stored))

signup(userDb, userData, newId, now) ==
    IF Has(userData, "email") /\ findUserByEmail(userDb, userData.email) # None
    THEN Throw(BadRequestError, "User already exists", userDb)
    ELSE LET created == createUser(userDb, newId, userData, now)
         IN  IF created.kind # "ok" THEN created
             ELSE Ok([user |-> WithoutPassword(created.data[1]),
                      token |-> signToken(newId, now)], created.db)

\* a login that tells an unknown email from a wrong password
login_tellsWhich(userDb, userData, now) ==
    IF Falsy(userData, "email") \/ Falsy(userData, "password")
    THEN Throw(BadRequestError, "Please provide email and password", userDb)
    ELSE LET user == findUserByEmail(userDb, userData.email)
         IN  IF user = None
             THEN Throw(AuthFailureError, "No user with that email", userDb)
             ELSE IF ~correctPassword(userData.password, user[1].password)
             THEN Throw(AuthFailureError, "Incorrect email or password", userDb)
             ELSE Ok([user |-> WithoutPassword(user[1]),
                      token |-> signToken(user[1].id, now)], userDb)

login(userDb, userData, now) ==
    IF Falsy(userData, "email") \/ Falsy(userData, "password")
    THEN Throw(BadRequestError, "Please provide email and password", userDb)
    ELSE LET user == findUserByEmail(userDb, userData.email)
         IN  IF user = None \/ ~correctPassword(userData.password, user[1].password)
             THEN Throw(AuthFailureError, "Incorrect email or password", userDb)
             ELSE Ok([user |-> WithoutPassword(user[1]),
                      token |-> signToken(user[1].id, now)], userDb)

(***************************************************************************)
(* workspace.middleware.ts: verifyWorkspaceOwnership.  No router mounts    *)
(* it; it is an operator of the model, not a step of any request.          *)
(***************************************************************************)
verifyWorkspaceOwnership(db, params, userId) ==
    LET workspaceId == IF Has(params, "workspaceId") THEN Some(params.workspaceId)
                       ELSE IF Has(params, "id") THEN Some(params.id)
                       ELSE None
    IN  IF workspaceId = None
        THEN Throw(NotFoundError, "Workspace ID is required", db)
        ELSE LET workspace == findById(db, workspaceId[1])
             IN  IF workspace = None
                 THEN Throw(NotFoundError, "Workspace not found", db)
                 ELSE IF workspace[1].userId # userId
                 THEN Throw(ForbiddenError,
                            "You do not have permission to access this workspace", db)
                 ELSE Ok(workspace[1], db)


(***************************************************************************)
(* auth.middleware.ts: protect.  The Authorization header is its scheme    *)
(* and, when a second word follows, the credentials; a token verifies      *)
(* when it is what signToken made and has not expired.                     *)
(***************************************************************************)
\* config.jwt.expiresIn, in ticks of the clock
ExpiresIn == 1

\* String.prototype.startsWith
StartsWith(s, prefix) ==
    Len(s) >= Len(prefix) /\ SubSeq(s, 1, Len(prefix)) = prefix

\* jwt.verify(token, secret) at time now
jwtVerify(token, now) ==
    IF DOMAIN token # {"id", "iat"}
    THEN [kind |-> "JsonWebTokenError", msg |-> "invalid signature", decoded |-> None]
    ELSE IF now > token.iat + ExpiresIn
    THEN [kind |-> "TokenExpiredError", msg |-> "jwt expired", decoded |-> None]
    ELSE [kind |-> "ok", msg |-> "", decoded |-> Some([id |-> token.id])]

\* a protect that does not look at the expiry of the token
protect_ignoreExpiry(userDb, headers, now) ==
    LET token == IF Has(headers, "authorization")
                    /\ StartsWith(headers.authorization.scheme, "Bearer")
                 THEN headers.authorization.credentials
                 ELSE None
    IN  IF token = None
        THEN Throw(UnauthorizedError,
                   "You are not logged in. Please log in to get access.", userDb)
        ELSE IF DOMAIN token[1] # {"id", "iat"}
        THEN Throw(UnauthorizedError, "Invalid token. Please log in again.", userDb)
        ELSE IF token[1].id \notin DOMAIN userDb
        THEN Throw(UnauthorizedError,
                   "The user belonging to this token no longer exists.", userDb)
        ELSE Ok(userDb[token[1].id], userDb)

\* protect: data is the user set on req.user when next() is called without
\* an error.  TokenExpiredError is a JsonWebTokenError, so the first branch
\* of the catch block takes both.
protect(userDb, headers, now) ==
    LET token == IF Has(headers, "authorization")
                    /\ StartsWith(headers.authorization.scheme, "Bearer")
                 THEN headers.authorization.credentials
                 ELSE None
    IN  IF token = None
        THEN Throw(UnauthorizedError,
                   "You are not logged in. Please log in to get access.", userDb)
        ELSE LET verified == jwtVerify(token[1], now)
             IN  IF verified.kind \in {"JsonWebTokenError", "TokenExpiredError"}
                 THEN Throw(UnauthorizedError, "Invalid token. Please log in again.",
                            userDb)
                 ELSE IF verified.decoded[1].id \notin DOMAIN userDb
                 THEN Throw(UnauthorizedError,
                            "The user belonging to this token no longer exists.", userDb)
                 ELSE Ok(userDb[verified.decoded[1].id], userDb)

\* router.use(protect) in front of POST /workspaces
workspaceRoutes_post(userDb, db, headers, body, newId, n, now) ==
    LET admitted == protect(userDb, headers, now)
    IN  IF admitted.kind # "ok"
        THEN Throw(admitted.kind, admitted.msg, db)
        ELSE createWorkspace(db, admitted.data[1].id, body, newId, n, now + 1)
(***************************************************************************)
(* The requests the model sends: small sets of bodies and parameters that  *)
(* reach every branch of the handlers.                                     *)
(***************************************************************************)
\* a well-formed ObjectId that names no document
AbsentId == 0

\* the :workspaceId or :id a request names: a stored one or none
WorkspaceIdInputs(db) == DOMAIN db \cup {AbsentId}

SignupBodies ==
    { [name |-> "Ann", email |-> "ann@x.io", password |-> "password1"],
      [name |-> "Bob", email |-> " Bob@X.io", password |-> "password2"],
      [name |-> "Ann", email |-> "Ann@x.io ", password |-> "password3"],
      [name |-> "Cy", email |-> "cy@x.io", password |-> "short"] }

LoginBodies ==
    { [email |-> "ann@x.io", password |-> "password1"],
      [email |-> "ann@x.io", password |-> "wrong-password"],
      [email |-> "nobody@x.io", password |-> "password1"],
      [email |-> "ann@x.io"] }

ValidWorkspaceData ==
    [name |-> "Site A", location |-> "Lagos", stage |-> "Planning",
     type |-> "Residential", budget |-> "50000000"]

CreateBodies ==
    { ValidWorkspaceData,
      [ValidWorkspaceData EXCEPT !.name = " ab "],
      [name |-> "Test", location |-> "Lagos"] }

ForeignResource ==
    [id |-> "client-id", name |-> "Gravel", quantity |-> 0, unit |-> "Tons",
     threshold |-> 10, status |-> "Good"]

\* the bodies of PUT /workspaces/:id; other stands for another user's id
UpdateBodies(other) ==
    { [name |-> "Site B", location |-> "Abuja"],
      [name |-> "ab"],
      [progress |-> 50, safetyScore |-> 7],
      [status |-> "Finished"],
      [userId |-> other],
      [resources |-> <<ForeignResource>>] }

ProgressInputs == {-1, 12, 100, 101}

Paint(quantity, threshold) ==
    [name |-> "Paint", quantity |-> quantity, unit |-> "L", threshold |-> threshold]

AddBodies ==
    { Paint(20, 30), Paint(-1, 30),
      [name |-> "Paint", unit |-> "L", threshold |-> 30] }

QuantityInputs == {-1, 10, 40}

UpdateResourceBodies ==
    { [quantity |-> 20],
      [unit |-> "Kg", threshold |-> 10],
      [name |-> "Rebar", quantity |-> -1],
      [name |-> "Rebar", quantity |-> 20, threshold |-> -1],
      [name |-> ""] }

BulkLists ==
    { <<>>,
      <<Paint(10, 30), Paint(40, 30)>>,
      <<Paint(20, 30), Paint(-1, 30)>>,
      <<[name |-> "Paint", quantity |-> 20, unit |-> "L"], Paint(20, 30)>> }

Hazard ==
    [description |-> "Open trench", severity |-> "High",
     recommendation |-> "Fence it"]

Report(riskScore) ==
    [riskScore |-> riskScore, hazards |-> <<Hazard>>, summary |-> "Weekly audit"]

ReportBodies ==
    { Report(-1), Report(30), Report(100), Report(101),
      [riskScore |-> 30, hazards |-> <<Hazard>>],
      [hazards |-> <<Hazard>>, summary |-> "Weekly audit"] }

Section(title) == [title |-> title, description |-> "As drawn"]
Material(name) == [name |-> name, quantity |-> "10 bags", specification |-> "Grade 42"]
Stage(phase) == [phase |-> phase, duration |-> "2 weeks", tasks |-> <<"Excavate">>]

ValidPlanData ==
    [sections |-> <<Section("Foundation")>>, materials |-> <<Material("Cement")>>,
     stages |-> <<Stage("Groundwork")>>, summary |-> "Two-storey block"]

\* the bodies of POST /workspaces/:workspaceId/architecture
PlanBodies ==
    { ValidPlanData,
      [ValidPlanData EXCEPT !.sections = <<>>],
      [k \in DOMAIN ValidPlanData \ {"summary"} |-> ValidPlanData[k]],
      [k \in DOMAIN ValidPlanData \cup {"costEstimate", "timeline"} |->
         IF k \in DOMAIN ValidPlanData THEN ValidPlanData[k] ELSE "12M"],
      [costEstimate |-> "12M", timeline |-> "6 months",
       stages |-> <<Stage("Groundwork")>>, summary |-> "Two-storey block"] }

UpdatePlanBodies ==
    { [summary |-> "Three-storey block"],
      [sections |-> <<Section("Roof")>>, summary |-> "  "],
      [materials |-> <<Material("Sand")>>, stages |-> <<>>],
      [sections |-> <<>>] }

SectionBodies == { Section("Walls"), [title |-> "Walls"] }
MaterialBodies == { Material("Granite"), [name |-> "Granite", quantity |-> "3 tons"] }
StageBodies ==
    { Stage("Roofing"),
      [phase |-> "Roofing", duration |-> "1 week", tasks |-> <<>>] }

\* the :resourceId a request names: the first or the last resource stored
\* in the workspace, or an id that names none
ResourceIdInputs(db, workspaceId) ==
    {"no-such-id"} \cup
    (IF workspaceId \in DOMAIN db
     THEN {db[workspaceId].resources[i].id :
             i \in {j \in DOMAIN db[workspaceId].resources :
                      j = 1 \/ j = Len(db[workspaceId].resources)}}
     ELSE {})

\* the :reportId a request names
ReportIdInputs(db, workspaceId) ==
    {"no-such-id"} \cup
    (IF workspaceId \in DOMAIN db
     THEN {db[workspaceId].safetyReports[i].id :
             i \in DOMAIN db[workspaceId].safetyReports}
     ELSE {})


\* the tokens a request can carry at time now: what signToken made for a
\* stored user or for a user that is not stored, at any earlier time, and a
\* token that no signToken made
TokenInputs(userDb, now) ==
    {signToken(id, iat) : id \in DOMAIN userDb \cup {AbsentId}, iat \in 0..now}
    \cup {[id |-> id, iat |-> now, alg |-> "none"] : id \in DOMAIN userDb}

\* the headers of a request: no Authorization header, a scheme alone, a
\* scheme with a token
HeaderInputs(userDb, now) ==
    {EmptyBody}
    \cup {[authorization |-> [scheme |-> s, credentials |-> None]] :
            s \in {"Bearer", "Basic"}}
    \cup {[authorization |-> [scheme |-> s, credentials |-> Some(t)]] :
            s \in {"Bearer", "Basic"}, t \in TokenInputs(userDb, now)}
(***************************************************************************)
(* The request handlers.  A handler runs after protect has resolved the    *)
(* bearer token to a stored user, so the caller u ranges over the users.   *)
(* A write happens at the time clock + 1.  app.ts mounts the workspace,    *)
(* the resource and the architecture router on /workspaces in that order,  *)
(* so a request is answered by the first router with a route for its path  *)
(* and method: the handlers below are the ones a request can reach.        *)
(***************************************************************************)
Now == clock + 1

\* whose workspace the request names
Target(u, w) ==
    IF w \notin DOMAIN workspaces THEN "absent"
    ELSE IF workspaces[w].userId = u THEN "own"
    ELSE "foreign"

\* what the handler sends: SuccessResponse(message, ...) or next(error)
Response(target, out, message) ==
    [target |-> target, kind |-> out.kind,
     msg |-> IF out.kind = "ok" THEN message ELSE out.msg]

\* no response is on its way: the next request can be handled
NoResponse == [target |-> "none", kind |-> "none", msg |-> ""]

\* a handler that only reads
Read(target, out, message) ==
    /\ res = NoResponse
    /\ res' = Response(target, out, message)
    /\ UNCHANGED <<users, workspaces, nextUserId, nextWorkspaceId, nextUuid, clock,
                 pending>>

\* a handler that writes a workspace document when it succeeds, having drawn
\* uuids identifiers from uuidv4()
Write(target, out, message, uuids) ==
    /\ res = NoResponse
    /\ out.kind = "ok" => clock < MaxClock
    /\ workspaces' = out.db
    /\ clock' = IF out.kind = "ok" THEN Now ELSE clock
    /\ nextUuid' = IF out.kind = "ok" THEN nextUuid + uuids ELSE nextUuid
    /\ res' = Response(target, out, message)
    /\ UNCHANGED <<users, nextUserId, nextWorkspaceId, pending>>

(***************************************************************************)
(* auth.controller.ts                                                      *)
(***************************************************************************)
authController_signup ==
    \E body \in SignupBodies :
        LET out == signup(users, body, nextUserId, clock)
        IN  /\ res = NoResponse
            /\ out.kind = "ok" => nextUserId <= MaxUsers
            /\ users' = out.db
            /\ nextUserId' = IF out.kind = "ok" THEN nextUserId + 1 ELSE nextUserId
            /\ res' = Response("none", out, "Signup successful")
            /\ UNCHANGED <<workspaces, nextWorkspaceId, nextUuid, clock, pending>>

authController_login ==
    \E body \in LoginBodies :
        LET out == login(users, body, clock)
        IN  /\ res = NoResponse
            /\ users' = out.db
            /\ res' = Response("none", out, "Login successful")
            /\ UNCHANGED <<workspaces, nextUserId, nextWorkspaceId, nextUuid, clock,
                         pending>>

(***************************************************************************)
(* workspace.controller.ts, mounted by workspace.routes.ts                 *)
(***************************************************************************)
workspaceController_getAllWorkspaces ==
    \E u \in DOMAIN users :
        Read("none", getAllWorkspaces(workspaces, u), "Workspaces retrieved successfully")

workspaceController_createWorkspace ==
    \E u \in DOMAIN users, body \in CreateBodies :
        LET out == createWorkspace(workspaces, u, body, nextWorkspaceId, nextUuid, Now)
        IN  /\ res = NoResponse
            /\ out.kind = "ok" => clock < MaxClock /\ nextWorkspaceId <= MaxWorkspaces
            /\ workspaces' = out.db
            /\ clock' = IF out.kind = "ok" THEN Now ELSE clock
            /\ nextWorkspaceId' =
                  IF out.kind = "ok" THEN nextWorkspaceId + 1 ELSE nextWorkspaceId
            /\ nextUuid' =
                  IF out.kind = "ok" THEN nextUuid + DefaultResourceCount ELSE nextUuid
            /\ res' = Response("none", out, "Workspace created successfully")
            /\ UNCHANGED <<users, nextUserId, pending>>

workspaceController_deleteWorkspace ==
    \E u \in DOMAIN users, w \in WorkspaceIdInputs(workspaces) :
        LET out == deleteWorkspace(workspaces, w, u)
        IN  /\ res = NoResponse
            /\ workspaces' = out.db
            /\ res' = Response(Target(u, w), out, "Workspace deleted successfully")
            /\ UNCHANGED <<users, nextUserId, nextWorkspaceId, nextUuid, clock, pending>>

workspaceController_getWorkspace ==
    \E u \in DOMAIN users, w \in WorkspaceIdInputs(workspaces) :
        Read(Target(u, w), getWorkspaceById(workspaces, w, u),
             "Workspace retrieved successfully")

workspaceController_updateWorkspace ==
    \E u \in DOMAIN users, w \in WorkspaceIdInputs(workspaces), other \in DOMAIN users :
        \E body \in UpdateBodies(other) :
            Write(Target(u, w), updateWorkspace(workspaces, w, u, body, Now),
                  "Workspace updated successfully", 0)

workspaceController_updateProgress ==
    \E u \in DOMAIN users, w \in WorkspaceIdInputs(workspaces), progress \in ProgressInputs :
        Write(Target(u, w), updateProgress(workspaces, w, u, progress, Now),
              "Progress updated successfully", 0)

workspaceController_toggleStatus ==
    \E u \in DOMAIN users, w \in WorkspaceIdInputs(workspaces) :
        Write(Target(u, w), toggleStatus(workspaces, w, u, Now),
              "Status toggled successfully", 0)

workspaceController_getAllResources ==
    \E u \in DOMAIN users, w \in WorkspaceIdInputs(workspaces) :
        Read(Target(u, w), getAllResources(workspaces, w, u),
             "Resources retrieved successfully")

workspaceController_addResource ==
    \E u \in DOMAIN users, w \in WorkspaceIdInputs(workspaces), body \in AddBodies :
        Write(Target(u, w), addResource(workspaces, w, u, body, nextUuid, Now),
              "Resource added successfully", 1)

workspaceController_updateResourceQuantity ==
    \E u \in DOMAIN users, w \in WorkspaceIdInputs(workspaces), quantity \in QuantityInputs :
        \E r \in ResourceIdInputs(workspaces, w) :
            Write(Target(u, w),
                  updateResourceQuantity(workspaces, w, r, u, quantity, Now),
                  "Resource quantity updated successfully", 0)

workspaceController_updateResource ==
    \E u \in DOMAIN users, w \in WorkspaceIdInputs(workspaces),
       body \in UpdateResourceBodies :
        \E r \in ResourceIdInputs(workspaces, w) :
            Write(Target(u, w), updateResource(workspaces, w, r, u, body, Now),
                  "Resource updated successfully", 0)

workspaceController_deleteResource ==
    \E u \in DOMAIN users, w \in WorkspaceIdInputs(workspaces) :
        \E r \in ResourceIdInputs(workspaces, w) :
            Write(Target(u, w), deleteResource(workspaces, w, r, u, Now),
                  "Resource deleted successfully", 0)

workspaceController_bulkReplaceResources ==
    \E u \in DOMAIN users, w \in WorkspaceIdInputs(workspaces), resources \in BulkLists :
        Write(Target(u, w),
              bulkReplaceResources(workspaces, w, u, resources, nextUuid, Now),
              "Resources replaced successfully", Len(resources))

workspaceController_saveArchitecturePlan ==
    \E u \in DOMAIN users, w \in WorkspaceIdInputs(workspaces), plan \in PlanBodies :
        Write(Target(u, w), saveArchitecturePlan(workspaces, w, u, plan, Now),
              "Architecture plan saved successfully", 0)

workspaceController_getArchitecturePlan ==
    \E u \in DOMAIN users, w \in WorkspaceIdInputs(workspaces) :
        Read(Target(u, w), getArchitecturePlan(workspaces, w, u),
             "Architecture plan retrieved successfully")

workspaceController_saveSafetyReport ==
    \E u \in DOMAIN users, w \in WorkspaceIdInputs(workspaces), body \in ReportBodies :
        Write(Target(u, w), saveSafetyReport(workspaces, w, u, body, nextUuid, Now),
              "Safety report saved successfully", 1)

workspaceController_getAllSafetyReports ==
    \E u \in DOMAIN users, w \in WorkspaceIdInputs(workspaces) :
        Read(Target(u, w), getAllSafetyReports(workspaces, w, u),
             "Safety reports retrieved successfully")

workspaceController_getSafetyReport ==
    \E u \in DOMAIN users, w \in WorkspaceIdInputs(workspaces) :
        \E r \in ReportIdInputs(workspaces, w) :
            Read(Target(u, w), getSafetyReportById(workspaces, w, r, u),
                 "Safety report retrieved successfully")

(***************************************************************************)
(* resource.controller.ts: the two routes of resource.routes.ts that the   *)
(* workspace router does not answer first.                                 *)
(***************************************************************************)
resourceController_getResource ==
    \E u \in DOMAIN users, w \in WorkspaceIdInputs(workspaces) :
        \E r \in ResourceIdInputs(workspaces, w) :
            Read(Target(u, w), getResourceById(workspaces, w, r, u),
                 "Resource retrieved successfully")

resourceController_getResourceStatistics ==
    \E u \in DOMAIN users, w \in WorkspaceIdInputs(workspaces) :
        Read(Target(u, w), getResourceStatistics(workspaces, w, u),
             "Resource statistics retrieved successfully")

(***************************************************************************)
(* architecture.controller.ts: the routes of architecture.routes.ts that   *)
(* the workspace router does not answer first.                             *)
(***************************************************************************)
architectureController_updateArchitecturePlan ==
    \E u \in DOMAIN users, w \in WorkspaceIdInputs(workspaces), plan \in UpdatePlanBodies :
        Write(Target(u, w), updateArchitecturePlan(workspaces, w, u, plan, Now),
              "Architecture plan updated successfully", 0)

architectureController_deleteArchitecturePlan ==
    \E u \in DOMAIN users, w \in WorkspaceIdInputs(workspaces) :
        Write(Target(u, w), deleteArchitecturePlan(workspaces, w, u, Now),
              "Architecture plan deleted successfully", 0)

architectureController_getArchitectureSections ==
    \E u \in DOMAIN users, w \in WorkspaceIdInputs(workspaces) :
        Read(Target(u, w), getArchitectureSections(workspaces, w, u),
             "Architecture sections retrieved successfully")

architectureController_getArchitectureMaterials ==
    \E u \in DOMAIN users, w \in WorkspaceIdInputs(workspaces) :
        Read(Target(u, w), getArchitectureMaterials(workspaces, w, u),
             "Architecture materials retrieved successfully")

architectureController_getArchitectureStages ==
    \E u \in DOMAIN users, w \in WorkspaceIdInputs(workspaces) :
        Read(Target(u, w), getArchitectureStages(workspaces, w, u),
             "Architecture stages retrieved successfully")

architectureController_addArchitectureSection ==
    \E u \in DOMAIN users, w \in WorkspaceIdInputs(workspaces), section \in SectionBodies :
        Write(Target(u, w), addArchitectureSection(workspaces, w, u, section, Now),
              "Architecture section added successfully", 0)

architectureController_addArchitectureMaterial ==
    \E u \in DOMAIN users, w \in WorkspaceIdInputs(workspaces), material \in MaterialBodies :
        Write(Target(u, w), addArchitectureMaterial(workspaces, w, u, material, Now),
              "Architecture material added successfully", 0)

architectureController_addArchitectureStage ==
    \E u \in DOMAIN users, w \in WorkspaceIdInputs(workspaces), stage \in StageBodies :
        Write(Target(u, w), addArchitectureStage(workspaces, w, u, stage, Now),
              "Architecture stage added successfully", 0)


(***************************************************************************)
(* The response leaves the server: SuccessResponse.send, or the error      *)
(* handler, ends the request.                                              *)
(***************************************************************************)
send ==
    /\ res # NoResponse
    /\ res' = NoResponse
    /\ UNCHANGED <<users, workspaces, nextUserId, nextWorkspaceId, nextUuid, clock,
                 pending>>
(***************************************************************************)
(* The specification: an empty database, then any request at any time.     *)
(***************************************************************************)
Init ==
    /\ users = [i \in {} |-> TRUE]
    /\ workspaces = [i \in {} |-> TRUE]
    /\ nextUserId = 1
    /\ nextWorkspaceId = 1
    /\ nextUuid = 1
    /\ clock = 0
    /\ res = NoResponse
    /\ pending = <<>>

Next ==
    \/ authController_signup
    \/ authController_login
    \/ workspaceController_getAllWorkspaces
    \/ workspaceController_createWorkspace
    \/ workspaceController_deleteWorkspace
    \/ workspaceController_getWorkspace
    \/ workspaceController_updateWorkspace
    \/ workspaceController_updateProgress
    \/ workspaceController_toggleStatus
    \/ workspaceController_getAllResources
    \/ workspaceController_addResource
    \/ workspaceController_updateResourceQuantity
    \/ workspaceController_updateResource
    \/ workspaceController_deleteResource
    \/ workspaceController_bulkReplaceResources
    \/ workspaceController_saveArchitecturePlan
    \/ workspaceController_getArchitecturePlan
    \/ workspaceController_saveSafetyReport
    \/ workspaceController_getAllSafetyReports
    \/ workspaceController_getSafetyReport
    \/ resourceController_getResource
    \/ resourceController_getResourceStatistics
    \/ architectureController_updateArchitecturePlan
    \/ architectureController_deleteArchitecturePlan
    \/ architectureController_getArchitectureSections
    \/ architectureController_getArchitectureMaterials
    \/ architectureController_getArchitectureStages
    \/ architectureController_addArchitectureSection
    \/ architectureController_addArchitectureMaterial
    \/ architectureController_addArchitectureStage
    \/ send

Spec == Init /\ [][Next]_vars

(***************************************************************************)
(* The resource functions of the two services called directly, as their    *)
(* unit tests call them, on a workspace that holds one resource of every   *)
(* quantity and threshold of the grid.                                     *)
(***************************************************************************)
QuantityGrid == 0..MaxQuantity
ThresholdGrid == 0..MaxThreshold

\* one user, one workspace, its resources replaced by a single item
InitResources ==
    \E quantity \in QuantityGrid, threshold \in ThresholdGrid :
        LET registered == signup([i \in {} |-> TRUE],
                                 [name |-> "Ann", email |-> "ann@x.io",
                                  password |-> "password1"], 1, 0)
            created == createWorkspace([i \in {} |-> TRUE], 1, ValidWorkspaceData, 1, 1, 1)
            replaced == bulkReplaceResources(created.db, 1, 1,
                                             <<Paint(quantity, threshold)>>,
                                             1 + DefaultResourceCount, 2)
        IN  /\ users = registered.db
            /\ workspaces = replaced.db
            /\ nextUserId = 2
            /\ nextWorkspaceId = 2
            /\ nextUuid = 2 + DefaultResourceCount
            /\ clock = 2
            /\ res = NoResponse
            /\ pending = <<>>

\* a direct call of a service function that saves the workspace
Call(out, uuids) ==
    /\ out.kind = "ok" => clock < MaxClock + MaxCalls
    /\ workspaces' = out.db
    /\ clock' = IF out.kind = "ok" THEN Now ELSE clock
    /\ nextUuid' = IF out.kind = "ok" THEN nextUuid + uuids ELSE nextUuid
    /\ UNCHANGED <<users, nextUserId, nextWorkspaceId, res, pending>>

workspaceService_updateResourceQuantity ==
    \E u \in DOMAIN users, w \in DOMAIN workspaces, quantity \in QuantityGrid :
        \E r \in ResourceIdInputs(workspaces, w) :
            Call(updateResourceQuantity(workspaces, w, r, u, quantity, Now), 0)

workspaceService_updateResource ==
    \E u \in DOMAIN users, w \in DOMAIN workspaces, threshold \in ThresholdGrid :
        \E r \in ResourceIdInputs(workspaces, w) :
            Call(updateResource(workspaces, w, r, u, [threshold |-> threshold], Now), 0)

resourceService_updateResourceQuantity ==
    \E u \in DOMAIN users, w \in DOMAIN workspaces, quantity \in QuantityGrid :
        \E r \in ResourceIdInputs(workspaces, w) :
            Call(resource_updateResourceQuantity(workspaces, w, r, u, quantity, Now), 0)

resourceService_updateResource ==
    \E u \in DOMAIN users, w \in DOMAIN workspaces, threshold \in ThresholdGrid :
        \E r \in ResourceIdInputs(workspaces, w) :
            Call(resource_updateResource(workspaces, w, r, u,
                                         [threshold |-> threshold], Now), 0)

NextResources ==
    \/ workspaceService_updateResourceQuantity
    \/ workspaceService_updateResource
    \/ resourceService_updateResourceQuantity
    \/ resourceService_updateResource

SpecResources == InitResources /\ [][NextResources]_vars

(***************************************************************************)
(* The resource service called directly on a workspace as createWorkspace  *)
(* leaves it: a resource is added, then read and updated by its id.        *)
(***************************************************************************)
InitRoundTrip ==
    LET registered == signup([i \in {} |-> TRUE],
                             [name |-> "Ann", email |-> "ann@x.io",
                              password |-> "password1"], 1, 0)
        created == createWorkspace([i \in {} |-> TRUE], 1, ValidWorkspaceData, 1, 1, 1)
    IN  /\ users = registered.db
        /\ workspaces = created.db
        /\ nextUserId = 2
        /\ nextWorkspaceId = 2
        /\ nextUuid = 1 + DefaultResourceCount
        /\ clock = 1
        /\ res = NoResponse
        /\ pending = <<>>

roundTrip_addResource ==
    \E u \in DOMAIN users, w \in DOMAIN workspaces, body \in AddBodies :
        Call(resource_addResource(workspaces, w, u, body, nextUuid, Now), 1)

roundTrip_updateResourceQuantity ==
    \E u \in DOMAIN users, w \in DOMAIN workspaces, quantity \in QuantityInputs :
        \E r \in ResourceIdInputs(workspaces, w) :
            Call(resource_updateResourceQuantity(workspaces, w, r, u, quantity, Now), 0)

roundTrip_updateResource ==
    \E u \in DOMAIN users, w \in DOMAIN workspaces, body \in UpdateResourceBodies :
        \E r \in ResourceIdInputs(workspaces, w) :
            Call(resource_updateResource(workspaces, w, r, u, body, Now), 0)

NextRoundTrip ==
    \/ roundTrip_addResource
    \/ roundTrip_updateResourceQuantity
    \/ roundTrip_updateResource

SpecRoundTrip == InitRoundTrip /\ [][NextRoundTrip]_vars

(***************************************************************************)
(* The ownership guard run in front of a request, as a router that mounted *)
(* it would run it: after protect, with the id in the route parameters.    *)
(***************************************************************************)
middleware_verifyWorkspaceOwnership ==
    \E u \in DOMAIN users, w \in WorkspaceIdInputs(workspaces), key \in {"workspaceId", "id"} :
        Read(Target(u, w), verifyWorkspaceOwnership(workspaces, [k \in {key} |-> w], u),
             "next()")

NextGuard ==
    \/ authController_signup
    \/ workspaceController_createWorkspace
    \/ workspaceController_updateWorkspace
    \/ middleware_verifyWorkspaceOwnership
    \/ send

SpecGuard == Init /\ [][NextGuard]_vars


(***************************************************************************)
(* The auth routes and a route behind protect: a request carries its       *)
(* Authorization header, and the handler runs as the user protect admits.  *)
(***************************************************************************)
workspaceRoutes_createWorkspace ==
    \E headers \in HeaderInputs(users, clock), body \in CreateBodies :
        LET out == workspaceRoutes_post(users, workspaces, headers, body,
                                        nextWorkspaceId, nextUuid, clock)
        IN  /\ res = NoResponse
            /\ out.kind = "ok" => clock < MaxClock /\ nextWorkspaceId <= MaxWorkspaces
            /\ workspaces' = out.db
            /\ clock' = IF out.kind = "ok" THEN Now ELSE clock
            /\ nextWorkspaceId' =
                  IF out.kind = "ok" THEN nextWorkspaceId + 1 ELSE nextWorkspaceId
            /\ nextUuid' =
                  IF out.kind = "ok" THEN nextUuid + DefaultResourceCount ELSE nextUuid
            /\ res' = Response("none", out, "Workspace created successfully")
            /\ UNCHANGED <<users, nextUserId, pending>>

NextAuth ==
    \/ authController_signup
    \/ authController_login
    \/ workspaceRoutes_createWorkspace
    \/ send

SpecAuth == Init /\ [][NextAuth]_vars

(***************************************************************************)
(* signup as the two awaits it is made of: the existence check and the     *)
(* create.  Requests interleave between the two; the unique index of the   *)
(* collection decides at the create.                                       *)
(***************************************************************************)
\* await User.findOne({ email }); if (exists) throw
signup_findOne ==
    \E body \in SignupBodies :
        /\ Len(pending) < MaxCalls
        /\ IF Has(body, "email") /\ findUserByEmail(users, body.email) # None
           THEN /\ res' = Response("none", Throw(BadRequestError, "User already exists",
                                                 users), "")
                /\ UNCHANGED pending
           ELSE /\ pending' = Append(pending, body)
                /\ UNCHANGED res
        /\ UNCHANGED <<users, workspaces, nextUserId, nextWorkspaceId, nextUuid, clock>>

\* await User.create(userData) and the response, for one of the requests
\* past their check
signup_create ==
    \E i \in DOMAIN pending :
        LET created == createUser(users, nextUserId, pending[i], clock)
        IN  /\ created.kind = "ok" => nextUserId <= MaxUsers
            /\ users' = created.db
            /\ nextUserId' = IF created.kind = "ok" THEN nextUserId + 1 ELSE nextUserId
            /\ res' = Response("none", created, "Signup successful")
            /\ pending' = SubSeq(pending, 1, i - 1) \o SubSeq(pending, i + 1, Len(pending))
            /\ UNCHANGED <<workspaces, nextWorkspaceId, nextUuid, clock>>

NextSignup ==
    \/ signup_findOne
    \/ signup_create

SpecSignup == Init /\ [][NextSignup]_vars
(***************************************************************************)
(* Every call of a service function on a workspace, as a value: the name   *)
(* of the function and its arguments.  Apply runs the call.                *)
(***************************************************************************)
\* the functions that take the workspace id and the caller alone
PlainCalls ==
    {"getWorkspaceById", "deleteWorkspace", "toggleStatus", "getAllResources",
     "getArchitecturePlan", "getAllSafetyReports", "resource.getAllResources",
     "getResourceStatistics", "architecture.getArchitecturePlan",
     "deleteArchitecturePlan", "getArchitectureSections",
     "getArchitectureMaterials", "getArchitectureStages"}

\* the functions that take a resource id
ResourceCalls(db, w) ==
    {[op |-> op, resourceId |-> r] :
        op \in {"deleteResource", "resource.deleteResource", "getResourceById"},
        r \in ResourceIdInputs(db, w)}
    \cup {[op |-> op, resourceId |-> r, quantity |-> q] :
            op \in {"updateResourceQuantity", "resource.updateResourceQuantity"},
            r \in ResourceIdInputs(db, w), q \in QuantityInputs}
    \cup {[op |-> op, resourceId |-> r, body |-> body] :
            op \in {"updateResource", "resource.updateResource"},
            r \in ResourceIdInputs(db, w), body \in UpdateResourceBodies}

\* the functions that take a body
BodyCalls ==
    {[op |-> "updateWorkspace", body |-> body] :
        body \in UNION {UpdateBodies(other) : other \in DOMAIN users}}
    \cup {[op |-> op, body |-> body] :
            op \in {"addResource", "resource.addResource"}, body \in AddBodies}
    \cup {[op |-> op, body |-> body] :
            op \in {"saveArchitecturePlan", "architecture.saveArchitecturePlan"},
            body \in PlanBodies}
    \cup {[op |-> "saveSafetyReport", body |-> body] : body \in ReportBodies}
    \cup {[op |-> "updateArchitecturePlan", body |-> body] : body \in UpdatePlanBodies}
    \cup {[op |-> "addArchitectureSection", body |-> body] : body \in SectionBodies}
    \cup {[op |-> "addArchitectureMaterial", body |-> body] : body \in MaterialBodies}
    \cup {[op |-> "addArchitectureStage", body |-> body] : body \in StageBodies}

\* every call a caller can make on workspace id w of collection db
ServiceCalls(db, w) ==
    {[op |-> op] : op \in PlainCalls}
    \cup ResourceCalls(db, w)
    \cup BodyCalls
    \cup {[op |-> "updateProgress", progress |-> p] : p \in ProgressInputs}
    \cup {[op |-> op, resources |-> resources] :
            op \in {"bulkReplaceResources", "resource.bulkReplaceResources"},
            resources \in BulkLists}
    \cup {[op |-> "getSafetyReportById", reportId |-> r] : r \in ReportIdInputs(db, w)}

\* call c made by user u on workspace id w of collection db at time now,
\* with n the next uuid
Apply(db, c, u, w, n, now) ==
    CASE c.op = "getWorkspaceById" -> getWorkspaceById(db, w, u)
      [] c.op = "updateWorkspace" -> updateWorkspace(db, w, u, c.body, now)
      [] c.op = "deleteWorkspace" -> deleteWorkspace(db, w, u)
      [] c.op = "updateProgress" -> updateProgress(db, w, u, c.progress, now)
      [] c.op = "toggleStatus" -> toggleStatus(db, w, u, now)
      [] c.op = "getAllResources" -> getAllResources(db, w, u)
      [] c.op = "addResource" -> addResource(db, w, u, c.body, n, now)
      [] c.op = "updateResourceQuantity" ->
            updateResourceQuantity(db, w, c.resourceId, u, c.quantity, now)
      [] c.op = "updateResource" -> updateResource(db, w, c.resourceId, u, c.body, now)
      [] c.op = "deleteResource" -> deleteResource(db, w, c.resourceId, u, now)
      [] c.op = "bulkReplaceResources" ->
            bulkReplaceResources(db, w, u, c.resources, n, now)
      [] c.op = "saveArchitecturePlan" -> saveArchitecturePlan(db, w, u, c.body, now)
      [] c.op = "getArchitecturePlan" -> getArchitecturePlan(db, w, u)
      [] c.op = "saveSafetyReport" -> saveSafetyReport(db, w, u, c.body, n, now)
      [] c.op = "getAllSafetyReports" -> getAllSafetyReports(db, w, u)
      [] c.op = "getSafetyReportById" -> getSafetyReportById(db, w, c.reportId, u)
      [] c.op = "resource.getAllResources" -> resource_getAllResources(db, w, u)
      [] c.op = "resource.addResource" -> resource_addResource(db, w, u, c.body, n, now)
      [] c.op = "getResourceById" -> getResourceById(db, w, c.resourceId, u)
      [] c.op = "resource.updateResourceQuantity" ->
            resource_updateResourceQuantity(db, w, c.resourceId, u, c.quantity, now)
      [] c.op = "resource.updateResource" ->
            resource_updateResource(db, w, c.resourceId, u, c.body, now)
      [] c.op = "resource.deleteResource" ->
            resource_deleteResource(db, w, c.resourceId, u, now)
      [] c.op = "resource.bulkReplaceResources" ->
            resource_bulkReplaceResources(db, w, u, c.resources, n, now)
      [] c.op = "getResourceStatistics" -> getResourceStatistics(db, w, u)
      [] c.op = "architecture.saveArchitecturePlan" ->
            architecture_saveArchitecturePlan(db, w, u, c.body, now)
      [] c.op = "architecture.getArchitecturePlan" ->
            architecture_getArchitecturePlan(db, w, u)
      [] c.op = "updateArchitecturePlan" -> updateArchitecturePlan(db, w, u, c.body, now)
      [] c.op = "deleteArchitecturePlan" -> deleteArchitecturePlan(db, w, u, now)
      [] c.op = "getArchitectureSections" -> getArchitectureSections(db, w, u)
      [] c.op = "getArchitectureMaterials" -> getArchitectureMaterials(db, w, u)
      [] c.op = "getArchitectureStages" -> getArchitectureStages(db, w, u)
      [] c.op = "addArchitectureSection" -> addArchitectureSection(db, w, u, c.body, now)
      [] c.op = "addArchitectureMaterial" -> addArchitectureMaterial(db, w, u, c.body, now)
      [] c.op = "addArchitectureStage" -> addArchitectureStage(db, w, u, c.body, now)


\* router.use(protect) in front of the handler that makes call c
protected(userDb, db, headers, c, w, n, now) ==
    LET admitted == protect(userDb, headers, now)
    IN  IF admitted.kind # "ok"
        THEN Throw(admitted.kind, admitted.msg, db)
        ELSE Apply(db, c, admitted.data[1].id, w, n, now + 1)

(***************************************************************************)
(* The architecture service called directly, as its unit tests call it, on *)
(* a workspace as createWorkspace leaves it: without a plan.  The outcome  *)
(* of the last call is kept in res.                                        *)
(***************************************************************************)
ArchitectureOps ==
    {"architecture.saveArchitecturePlan", "architecture.getArchitecturePlan",
     "updateArchitecturePlan", "deleteArchitecturePlan", "getArchitectureSections",
     "getArchitectureMaterials", "getArchitectureStages", "addArchitectureSection",
     "addArchitectureMaterial", "addArchitectureStage"}

architectureService_call ==
    \E u \in DOMAIN users, w \in WorkspaceIdInputs(workspaces) :
        \E c \in {call \in ServiceCalls(workspaces, w) : call.op \in ArchitectureOps} :
            LET out == Apply(workspaces, c, u, w, nextUuid, Now)
            IN  /\ out.kind = "ok" /\ out.db # workspaces => clock < MaxClock + MaxCalls
                /\ workspaces' = out.db
                /\ clock' = IF out.db # workspaces THEN Now ELSE clock
                /\ res' = Response(Target(u, w), out, c.op)
                /\ UNCHANGED <<users, nextUserId, nextWorkspaceId, nextUuid, pending>>

SpecPlan == InitRoundTrip /\ [][architectureService_call]_vars

(***************************************************************************)
(* Two mutations of the workspace service as the awaits they are made of:  *)
(* the load of the document and its save.  A request between the two is an *)
(* entry of pending that holds the loaded document; when the request is    *)
(* over the entry holds its outcome.  save() sends the paths modified in   *)
(* the loaded document: the fields of one array element after an           *)
(* assignment to them, the whole array after a splice.  Both are sent for  *)
(* the version (__v) the document was loaded with, and the write of the    *)
(* whole array increments it: stale marks the entries loaded with a        *)
(* version that is no longer the stored one.                               *)
(***************************************************************************)
Suspended(op, resourceId, quantity, kind, doc, index) ==
    [op |-> op, resourceId |-> resourceId, quantity |-> quantity, kind |-> kind,
     doc |-> doc, index |-> index, stale |-> FALSE, savedAt |-> 0]

\* $set of resources.<index>.quantity and resources.<index>.status
saveElement(db, workspaceId, index, resource, now) ==
    LET doc == [db[workspaceId] EXCEPT
                  !.resources[index].quantity = resource.quantity,
                  !.resources[index].status = resource.status]
    IN  Put(db, workspaceId, Stamp(doc, now))

\* a splice that reaches the store as a $pull of the element
saveArray_pull(db, workspaceId, resources, index, now) ==
    LET doc == [db[workspaceId] EXCEPT !.resources = Splice(@, index)]
    IN  Put(db, workspaceId, Stamp(doc, now))

\* $set of resources to the array of the loaded document, spliced at index
saveArray(db, workspaceId, resources, index, now) ==
    LET doc == [db[workspaceId] EXCEPT !.resources = Splice(resources, index)]
    IN  Put(db, workspaceId, Stamp(doc, now))

\* the entries still between load and save lose their version
Outdated(entries, i) ==
    [j \in DOMAIN entries |->
        IF j # i /\ entries[j].kind = "loaded"
        THEN [entries[j] EXCEPT !.stale = TRUE] ELSE entries[j]]

\* updateResourceQuantity up to await getWorkspaceById and the find
updateResourceQuantity_load ==
    \E u \in DOMAIN users, w \in DOMAIN workspaces, quantity \in QuantityInputs :
        \E r \in ResourceIdInputs(workspaces, w) :
            LET got == getWorkspaceById(workspaces, w, u)
                i == FindIndex(got.data[1].resources, r)
                kind == IF quantity < 0 THEN BadRequestError
                        ELSE IF got.kind # "ok" \/ i = 0 THEN NotFoundError
                        ELSE "loaded"
            IN  /\ Len(pending) < MaxCalls
                /\ pending' = Append(pending,
                      IF kind = "loaded"
                      THEN Suspended("updateResourceQuantity", r, quantity, kind, got.data, i)
                      ELSE Suspended("updateResourceQuantity", r, quantity, kind, None, 0))
                /\ UNCHANGED <<users, workspaces, nextUserId, nextWorkspaceId, nextUuid,
                             clock, res>>

\* the assignments to the resource and await workspace.save()
updateResourceQuantity_save ==
    \E i \in DOMAIN pending :
        LET call == pending[i]
            loaded == call.doc[1]
            resource == [loaded.resources[call.index] EXCEPT
                           !.quantity = call.quantity,
                           !.status = calculateResourceStatus(
                                        call.quantity, loaded.resources[call.index].threshold)]
        IN  /\ call.op = "updateResourceQuantity" /\ call.kind = "loaded"
            /\ clock < MaxClock + MaxCalls
            /\ IF call.stale
               THEN /\ pending' = [pending EXCEPT ![i].kind = "VersionError"]
                    /\ UNCHANGED <<workspaces, clock>>
               ELSE /\ workspaces' = saveElement(workspaces, loaded.id, call.index,
                                                 resource, Now)
                    /\ pending' = [pending EXCEPT ![i].kind = "ok", ![i].savedAt = Now]
                    /\ clock' = Now
            /\ UNCHANGED <<users, nextUserId, nextWorkspaceId, nextUuid, res>>

\* deleteResource up to await getWorkspaceById and the findIndex
deleteResource_load ==
    \E u \in DOMAIN users, w \in DOMAIN workspaces :
        \E r \in ResourceIdInputs(workspaces, w) :
            LET got == getWorkspaceById(workspaces, w, u)
                i == FindIndex(got.data[1].resources, r)
            IN  /\ Len(pending) < MaxCalls
                /\ pending' = Append(pending,
                      IF got.kind = "ok" /\ i # 0
                      THEN Suspended("deleteResource", r, 0, "loaded", got.data, i)
                      ELSE Suspended("deleteResource", r, 0, NotFoundError, None, 0))
                /\ UNCHANGED <<users, workspaces, nextUserId, nextWorkspaceId, nextUuid,
                             clock, res>>

\* workspace.resources.splice(resourceIndex, 1) and await workspace.save()
deleteResource_save ==
    \E i \in DOMAIN pending :
        LET call == pending[i]
            loaded == call.doc[1]
        IN  /\ call.op = "deleteResource" /\ call.kind = "loaded"
            /\ clock < MaxClock + MaxCalls
            /\ IF call.stale
               THEN /\ pending' = [pending EXCEPT ![i].kind = "VersionError"]
                    /\ UNCHANGED <<workspaces, clock>>
               ELSE /\ workspaces' = saveArray(workspaces, loaded.id, loaded.resources,
                                               call.index, Now)
                    /\ pending' = Outdated([pending EXCEPT ![i].kind = "ok",
                                                          ![i].savedAt = Now], i)
                    /\ clock' = Now
            /\ UNCHANGED <<users, nextUserId, nextWorkspaceId, nextUuid, res>>

SpecInterleaved ==
    InitRoundTrip /\ [][\/ updateResourceQuantity_load
                        \/ updateResourceQuantity_save
                        \/ deleteResource_load
                        \/ deleteResource_save]_vars
(***************************************************************************)
(* The properties.                                                         *)
(***************************************************************************)
\* the resources stored in the collection, as <<workspace id, index>>
StoredResources ==
    UNION {{<<w, i>> : i \in DOMAIN workspaces[w].resources} : w \in DOMAIN workspaces}

\* C1: every stored resource carries the status the classifier gives its
\* quantity and threshold, after any sequence of requests.
C1_StatusIsClassified ==
    \A p \in StoredResources :
        LET r == workspaces[p[1]].resources[p[2]]
        IN  r.status = calculateResourceStatus(r.quantity, r.threshold)

\* C2: the classifier is total and partitions the inputs with a positive
\* threshold: Critical iff 2q <= t, Low iff t/2 < q <= t, Good iff q > t;
\* the copy of resource.service.ts gives the same status on every input,
\* and it is the status the service functions store.
C2_ClassifierPartition ==
    \A p \in StoredResources :
        LET r == workspaces[p[1]].resources[p[2]]
            q == r.quantity
            t == r.threshold
            status == calculateResourceStatus(q, t)
        IN  /\ status \in StatusValues
            /\ resource_calculateResourceStatus(q, t) = status
            /\ r.status = status
            /\ t > 0 =>
                  /\ status = "Critical" <=> 2 * q <= t
                  /\ status = "Low" <=> (t < 2 * q /\ q <= t)
                  /\ status = "Good" <=> q > t

\* a resource on the boundary 2q = t that a service function has classified
C2_Witness ==
    \E p \in StoredResources :
        LET r == workspaces[p[1]].resources[p[2]]
        IN  /\ workspaces[p[1]].updatedAt > 2
            /\ r.threshold > 0 /\ 2 * r.quantity = r.threshold
            /\ r.status = "Critical"

\* the five fields POST /workspaces asks for
FiveFields == {"name", "location", "stage", "type", "budget"}

\* bodies of POST /workspaces: every subset of the five fields, and names
\* and locations at the edges of the schema
CreateRequests ==
    {[k \in S |-> ValidWorkspaceData[k]] : S \in SUBSET FiveFields}
    \cup {[ValidWorkspaceData EXCEPT !.name = name] : name \in {"", "ab", " ab ", "abc", " abc"}}
    \cup {[ValidWorkspaceData EXCEPT !.location = location] : location \in {"", " "}}

\* every one of the five fields is in the body and not empty
Present(body) == \A k \in FiveFields : Has(body, k) /\ body[k] # ""

\* the strings of the body pass the validators of the schema
SchemaAccepts(body) ==
    /\ Len(Trim(body.name)) >= NameMinLength /\ Len(Trim(body.name)) <= NameMaxLength
    /\ Trim(body.location) # "" /\ Trim(body.stage) # "" /\ Trim(body.type) # ""

\* out created, for user u, a workspace with the defaults of the claim
CreatedWithDefaults(out, u) ==
    /\ out.kind = "ok"
    /\ LET created == out.data[1]
           resources == created.resources
       IN  /\ created.userId = u
           /\ created.progress = 0 /\ created.safetyScore = 100
           /\ created.status = "Under Construction"
           /\ created.safetyReports = <<>> /\ created.architecturePlan = None
           /\ Len(resources) = 5
           /\ [i \in 1..5 |-> resources[i].name]
                = <<"Cement", "Sand", "Granite", "Iron Rods", "Blocks">>
           /\ \A i \in 1..5 : resources[i].quantity = 0 /\ resources[i].status = "Low"
           /\ \A i, j \in 1..5 : i # j => resources[i].id # resources[j].id
           /\ created.id \notin DOMAIN workspaces
           /\ out.db = Put(workspaces, created.id, created)

\* C3 as the specification states it: createWorkspace with the five fields
\* present always yields the workspace with the defaults, and with one of
\* them missing fails with BadInput and creates nothing.
C3_CreateAlwaysYields ==
    res = NoResponse =>
        \A u \in DOMAIN users, body \in CreateRequests :
            LET out == createWorkspace(workspaces, u, body, nextWorkspaceId, nextUuid, Now)
            IN  IF Present(body)
                THEN CreatedWithDefaults(out, u)
                ELSE out.kind = BadRequestError /\ out.db = workspaces

\* C3: createWorkspace with the five fields present and accepted by the
\* schema (a trimmed name of 3 to 100 characters, a location, stage and type
\* that are not blank) yields a workspace owned by the caller with progress
\* 0, safetyScore 100, status Under Construction, no report, no plan and the
\* five default resources, quantity 0, status Low, distinct ids; with a field
\* missing it fails with BadInput, with a field the schema refuses it fails
\* validation, and in both cases nothing is created.
C3_CreateYieldsWhenValid ==
    res = NoResponse =>
        \A u \in DOMAIN users, body \in CreateRequests :
            LET out == createWorkspace(workspaces, u, body, nextWorkspaceId, nextUuid, Now)
            IN  IF ~Present(body)
                THEN out.kind = BadRequestError /\ out.db = workspaces
                ELSE IF SchemaAccepts(body)
                THEN CreatedWithDefaults(out, u)
                ELSE out.kind = ValidationError /\ out.db = workspaces

\* a workspace has just been created with its five default resources
C3_Witness ==
    /\ res.msg = "Workspace created successfully"
    /\ \E w \in DOMAIN workspaces :
          /\ workspaces[w].createdAt = clock
          /\ Len(workspaces[w].resources) = 5
          /\ \A i \in 1..5 : workspaces[w].resources[i].status = "Low"

\* C4: a caller who does not own workspace W gets, from every workspace,
\* resource, architecture and safety-report function, the same outcome when
\* W is stored under another owner as when W is not stored at all: the same
\* error, NotFound or BadInput, the same message, and a collection left as
\* it was; and no response is ever Forbidden.
C4_ExistenceHidden ==
    /\ res.kind # ForbiddenError
    /\ res = NoResponse =>
          \A u \in DOMAIN users, w \in DOMAIN workspaces :
              workspaces[w].userId # u =>
                  \A c \in ServiceCalls(workspaces, w) :
                      LET there == Apply(workspaces, c, u, w, nextUuid, Now)
                          gone == Apply(Remove(workspaces, w), c, u, w, nextUuid, Now)
                      IN  /\ there.kind \in {NotFoundError, BadRequestError}
                          /\ there.kind = gone.kind
                          /\ there.msg = gone.msg
                          /\ there.data = gone.data
                          /\ there.db = workspaces
                          /\ gone.db = Remove(workspaces, w)

\* a user has asked for a workspace that another user owns and has been
\* answered that it was not found
C4_Witness ==
    /\ res.target = "foreign"
    /\ res.kind = NotFoundError
    /\ res.msg = "Workspace not found"

\* C5: the ownership guard answers NotFound, never Forbidden, for a
\* workspace stored under another owner, and calls next() without an error
\* only for a stored workspace whose owner is the caller.
C5_GuardAnswersNotFound ==
    /\ res.kind # ForbiddenError
    /\ res.target = "foreign" => res.kind = NotFoundError
    /\ res.msg = "next()" => res.target = "own"

\* the workspaces of the collection that user u owns
OwnedBy(u) == {w \in DOMAIN workspaces : workspaces[w].userId = u}

\* C6: a call by user u succeeds only on a workspace u owns at that moment
\* and leaves every workspace u does not own stored as it was; and
\* getAllWorkspaces(u) returns exactly the workspaces u owns, the most
\* recently updated first.
C6_UserIsolation ==
    res = NoResponse =>
        \A u \in DOMAIN users :
            /\ LET listed == getAllWorkspaces(workspaces, u).data[1]
               IN  /\ Len(listed) = Cardinality(OwnedBy(u))
                   /\ {listed[i] : i \in DOMAIN listed} = {workspaces[w] : w \in OwnedBy(u)}
                   /\ \A i, j \in DOMAIN listed :
                          i < j => listed[i].updatedAt > listed[j].updatedAt
            /\ \A w \in WorkspaceIdInputs(workspaces) :
                   \A c \in ServiceCalls(workspaces, w) :
                       LET out == Apply(workspaces, c, u, w, nextUuid, Now)
                       IN  /\ out.kind = "ok" => w \in OwnedBy(u)
                           /\ \A x \in DOMAIN workspaces \ OwnedBy(u) :
                                  x \in DOMAIN out.db /\ out.db[x] = workspaces[x]

\* a user who owns a workspace has listed their workspaces while another
\* user owns a workspace too
C6_Witness ==
    /\ res.msg = "Workspaces retrieved successfully"
    /\ \E a, b \in DOMAIN users : a # b /\ OwnedBy(a) # {} /\ OwnedBy(b) # {}

\* lists for PUT /workspaces/:workspaceId/resources: up to three items, each
\* valid, without a field, with an empty name or with a negative number
BulkItems ==
    { Paint(10, 30), Paint(40, 30), Paint(-1, 30), Paint(20, -1),
      [name |-> "Paint", quantity |-> 20, unit |-> "L"],
      [name |-> "", quantity |-> 20, unit |-> "L", threshold |-> 30] }

BulkRequests ==
    {<<>>} \cup {<<a>> : a \in BulkItems} \cup {<<a, b>> : a, b \in BulkItems}
    \cup {<<Paint(10, 30), a, Paint(40, 30)>> : a \in BulkItems}
    \cup {<<Paint(10, 30), Paint(40, 30), a>> : a \in BulkItems}

\* the item is valid in the sense of the claim
ValidItem(r) ==
    /\ Has(r, "name") /\ r.name # "" /\ Has(r, "unit") /\ r.unit # ""
    /\ Has(r, "quantity") /\ Has(r, "threshold")
    /\ r.quantity >= 0 /\ r.threshold >= 0

\* out replaced the resources of workspace w by the items of the list, in
\* order, under fresh ids
Replaced(out, w, resources) ==
    /\ out.kind = "ok"
    /\ LET old == workspaces[w].resources
           new == out.db[w].resources
       IN  /\ Len(new) = Len(resources)
           /\ \A i \in DOMAIN new :
                /\ new[i].name = resources[i].name
                /\ new[i].quantity = resources[i].quantity
                /\ new[i].unit = resources[i].unit
                /\ new[i].threshold = resources[i].threshold
                /\ new[i].status = calculateResourceStatus(resources[i].quantity,
                                                           resources[i].threshold)
                /\ \A j \in DOMAIN old : new[i].id # old[j].id
                /\ \A j \in DOMAIN new : i # j => new[i].id # new[j].id
           /\ out.data[1] = new

\* C7: bulkReplaceResources by the owner, in either service: with an invalid
\* item at any position it fails with BadInput and the collection is what it
\* was; with valid items only, the stored list is the incoming items in
\* order, each with a fresh id and the status of the classifier, and no old
\* resource remains.
C7_BulkReplaceAllOrNothing ==
    res = NoResponse =>
        \A w \in DOMAIN workspaces, resources \in BulkRequests :
            LET u == workspaces[w].userId
                out == bulkReplaceResources(workspaces, w, u, resources, nextUuid, Now)
                other == resource_bulkReplaceResources(workspaces, w, u, resources,
                                                      nextUuid, Now)
            IN  IF \A i \in DOMAIN resources : ValidItem(resources[i])
                THEN Replaced(out, w, resources) /\ Replaced(other, w, resources)
                ELSE /\ out.kind = BadRequestError /\ out.db = workspaces
                     /\ other.kind = BadRequestError /\ other.db = workspaces

\* the resources of a workspace have just been replaced by a list of two
C7_Witness ==
    /\ res.msg = "Resources replaced successfully"
    /\ \E w \in DOMAIN workspaces :
          /\ workspaces[w].updatedAt = clock
          /\ Len(workspaces[w].resources) = 2
          /\ \A i \in 1..2 : workspaces[w].resources[i].name = "Paint"

\* C8: a service function that ends with an error leaves the stored users
\* and workspaces exactly as they were, also when updateResource or
\* updateArchitecturePlan has assigned earlier fields of the body in memory
\* before a later field is rejected.
C8_FailureChangesNothing ==
    res = NoResponse =>
        /\ \A body \in SignupBodies :
               LET out == signup(users, body, nextUserId, clock)
               IN  out.kind # "ok" => out.db = users
        /\ \A body \in LoginBodies : login(users, body, clock).db = users
        /\ \A u \in DOMAIN users :
               /\ \A body \in CreateRequests :
                      LET out == createWorkspace(workspaces, u, body, nextWorkspaceId,
                                                 nextUuid, Now)
                      IN  out.kind # "ok" => out.db = workspaces
               /\ \A w \in WorkspaceIdInputs(workspaces) :
                      \A c \in ServiceCalls(workspaces, w) :
                          LET out == Apply(workspaces, c, u, w, nextUuid, Now)
                          IN  out.kind # "ok" => out.db = workspaces

\* the owner's update of a plan has been rejected for its blank summary
\* after the sections of the same body were assigned, and the stored plan
\* has the sections it had
C8_Witness ==
    /\ res.target = "own"
    /\ res.kind = BadRequestError
    /\ res.msg = "Summary must be a non-empty string"
    /\ \E w \in DOMAIN workspaces :
          /\ workspaces[w].architecturePlan # None
          /\ workspaces[w].architecturePlan[1].sections = <<Section("Foundation")>>

\* the paths of a workspace document that toggleStatus may change
ToggledPaths == {"status", "progress", "lastUpdated", "updatedAt"}

\* C9: toggleStatus by the owner turns Under Construction into Finished with
\* progress 100 whatever the progress was, and Finished into Under
\* Construction with the progress it had; no other field of the workspace
\* changes, and a second toggle restores the status.
C9_ToggleFlipsStatus ==
    res = NoResponse =>
        \A w \in DOMAIN workspaces :
            LET before == workspaces[w]
                u == before.userId
                out == toggleStatus(workspaces, w, u, Now)
                after == out.db[w]
                again == toggleStatus(out.db, w, u, Now + 1)
            IN  /\ out.kind = "ok"
                /\ before.status = "Under Construction" =>
                       after.status = "Finished" /\ after.progress = 100
                /\ before.status = "Finished" =>
                       after.status = "Under Construction"
                       /\ after.progress = before.progress
                /\ \A k \in DOMAIN before \ ToggledPaths : after[k] = before[k]
                /\ \A x \in DOMAIN workspaces \ {w} :
                       x \in DOMAIN out.db /\ out.db[x] = workspaces[x]
                /\ again.kind = "ok" /\ again.db[w].status = before.status

\* a workspace has just been toggled to Finished, its progress now 100
C9_Witness ==
    /\ res.msg = "Status toggled successfully"
    /\ \E w \in DOMAIN workspaces :
          /\ workspaces[w].updatedAt = clock
          /\ workspaces[w].status = "Finished"
          /\ workspaces[w].progress = 100

\* well-formed reports with risk scores in and around the range
ReportRequests == {Report(r) : r \in {-1, 0, 30, 99, 100, 101}}

ReportIds(reports) == {reports[i].id : i \in DOMAIN reports}

\* every call on a workspace, and an update of the workspace whose body
\* names the report history
HistoryCalls(db, w) ==
    ServiceCalls(db, w)
    \cup {[op |-> "updateWorkspace", body |-> [safetyReports |-> <<>>]]}

\* C11: the report history is append-only and newest first: a successful
\* saveSafetyReport puts the new report, with an id no stored report has, in
\* front of the unchanged earlier reports; every other call by the owner
\* except a successful deleteWorkspace leaves the history as it was;
\* getAllSafetyReports returns the history in stored order and
\* getSafetyReportById returns the report with the id or fails with NotFound.
C11_HistoryAppendOnly ==
    res = NoResponse =>
        \A w \in DOMAIN workspaces :
            LET before == workspaces[w].safetyReports
                u == workspaces[w].userId
            IN  /\ \A c \in HistoryCalls(workspaces, w) :
                       LET out == Apply(workspaces, c, u, w, nextUuid, Now)
                       IN  IF c.op = "deleteWorkspace" /\ out.kind = "ok"
                           THEN w \notin DOMAIN out.db
                           ELSE IF c.op = "saveSafetyReport" /\ out.kind = "ok"
                           THEN /\ out.db[w].safetyReports = out.data \o before
                                /\ out.data[1].id \notin ReportIds(before)
                           ELSE out.db[w].safetyReports = before
                /\ getAllSafetyReports(workspaces, w, u).data = Some(before)
                /\ \A r \in ReportIdInputs(workspaces, w) :
                       LET out == getSafetyReportById(workspaces, w, r, u)
                       IN  IF r \in ReportIds(before)
                           THEN out.kind = "ok" /\ out.data[1].id = r
                                /\ \E i \in DOMAIN before : before[i] = out.data[1]
                           ELSE out.kind = NotFoundError

\* the resources a round trip adds: the example of the specification and
\* the corners of quantity and threshold
RoundTripAdds == {Paint(q, t) : q \in {0, 20}, t \in {0, 30}}

\* getResourceById on collection db returns the resource id with these four
\* values and the status derived from quantity and threshold
ReadsBack(db, w, u, id, name, quantity, unit, threshold) ==
    getResourceById(db, w, id, u)
        = Ok([id |-> id, name |-> name, quantity |-> quantity, unit |-> unit,
              threshold |-> threshold,
              status |-> resource_calculateResourceStatus(quantity, threshold)], db)

\* the status getResourceById reports for resource id
StatusOf(db, w, u, id) == getResourceById(db, w, id, u).data[1].status

\* C12: a resource added by addResource is read back by getResourceById with
\* the four values given and the classified status; after a successful
\* updateResourceQuantity or updateResource of a stored resource it is read
\* back with the updated values, the others kept, and the status derived
\* from the current quantity and threshold; with threshold 30, quantity 20
\* reads Low, then 10 reads Critical, then 40 reads Good.
C12_ResourceRoundTrip ==
    \A w \in DOMAIN workspaces :
        LET u == workspaces[w].userId
            stored == workspaces[w].resources
        IN  /\ \A body \in RoundTripAdds :
                   LET added == resource_addResource(workspaces, w, u, body, nextUuid, Now)
                   IN  /\ added.kind = "ok"
                       /\ ReadsBack(added.db, w, u, added.data[1].id, body.name,
                                    body.quantity, body.unit, body.threshold)
            /\ \A i \in DOMAIN stored, q \in QuantityInputs :
                   LET r == stored[i]
                       out == resource_updateResourceQuantity(workspaces, w, r.id, u, q, Now)
                   IN  out.kind = "ok" =>
                           ReadsBack(out.db, w, u, r.id, r.name, q, r.unit, r.threshold)
            /\ \A i \in DOMAIN stored, body \in UpdateResourceBodies :
                   LET r == stored[i]
                       out == resource_updateResource(workspaces, w, r.id, u, body, Now)
                   IN  out.kind = "ok" =>
                           ReadsBack(out.db, w, u, r.id,
                                     GetOr(body, "name", r.name),
                                     GetOr(body, "quantity", r.quantity),
                                     GetOr(body, "unit", r.unit),
                                     GetOr(body, "threshold", r.threshold))
            /\ LET added == resource_addResource(workspaces, w, u, Paint(20, 30),
                                                 nextUuid, Now)
                   id == added.data[1].id
                   ten == resource_updateResourceQuantity(added.db, w, id, u, 10, Now + 1)
                   forty == resource_updateResourceQuantity(ten.db, w, id, u, 40, Now + 2)
               IN  /\ StatusOf(added.db, w, u, id) = "Low"
                   /\ ten.kind = "ok" /\ StatusOf(ten.db, w, u, id) = "Critical"
                   /\ forty.kind = "ok" /\ StatusOf(forty.db, w, u, id) = "Good"

\* the resource added with quantity 20 and threshold 30 has been updated to
\* 10 and then to 40 and is stored as Good
C12_Witness ==
    \E w \in DOMAIN workspaces :
        /\ clock = 4
        /\ Len(workspaces[w].resources) = DefaultResourceCount + 1
        /\ LET r == workspaces[w].resources[DefaultResourceCount + 1]
           IN  /\ r.name = "Paint" /\ r.quantity = 40 /\ r.threshold = 30
               /\ getResourceById(workspaces, w, r.id, workspaces[w].userId).data[1].status
                      = "Good"

\* login requests: registered and unregistered emails, as typed, with right,
\* wrong and empty passwords, and bodies that lack a field
LoginRequests ==
    {[email |-> e, password |-> p] :
        e \in {"ann@x.io", " Bob@X.io", "nobody@x.io", ""},
        p \in {"password1", "password2", "wrong-password", ""}}
    \cup {[email |-> "ann@x.io"], [password |-> "password1"], EmptyBody}

\* the stored users a login body names: the email matches, and the password
\* verifies against the stored hash
Registered(body) == {i \in DOMAIN users : users[i].email = CastEmail(body.email)}
Verified(body) == {i \in Registered(body) : users[i].password = Hash(body.password)}

\* C13: login without an email or without a password fails with BadInput
\* whoever is registered; with both present it fails with one and the same
\* AuthFailure, with no data and no change of state, when no user has the
\* email and when the password does not verify; it succeeds, with a token
\* bound to the user's id, only for a registered email with its password.
C13_LoginUniformFailure ==
    res = NoResponse =>
        \A body \in LoginRequests :
            LET out == login(users, body, clock)
            IN  IF Falsy(body, "email") \/ Falsy(body, "password")
                THEN out = Throw(BadRequestError, "Please provide email and password",
                                 users)
                ELSE IF Verified(body) = {}
                THEN out = Throw(AuthFailureError, "Incorrect email or password", users)
                ELSE /\ out.kind = "ok"
                     /\ out.db = users
                     /\ out.data[1].token.id \in Verified(body)
                     /\ out.data[1].user.id = out.data[1].token.id

\* a login has failed with AuthFailure while Ann is registered and nobody
\* else is: the request named an unknown email or gave a wrong password
C13_Witness ==
    /\ res.kind = AuthFailureError
    /\ res.msg = "Incorrect email or password"
    /\ \E i \in DOMAIN users : users[i].email = "ann@x.io"
    /\ login(users, [email |-> "nobody@x.io", password |-> "password1"], clock)
           = login(users, [email |-> "ann@x.io", password |-> "wrong-password"], clock)

\* signup requests: emails registered as typed, registered up to case and
\* blanks, and unregistered, with passwords the schema accepts and refuses
SignupRequests ==
    {[name |-> "Ann", email |-> e, password |-> p] :
        e \in {"ann@x.io", "Ann@x.io ", " Bob@X.io", "cy@x.io"},
        p \in {"password1", "short"}}

\* the user schema accepts the body: a name, an email, a password of 8 or more
SchemaAcceptsUser(body) ==
    /\ Trim(body.name) # "" /\ CastEmail(body.email) # ""
    /\ Len(body.password) >= PasswordMinLength

C15_EmailUnique ==
    \A i, j \in DOMAIN users : i # j => users[i].email # users[j].email

\* two signups for Ann's email were both past their check; one has created
\* the user and the other's create has been refused by the index
C15_Witness ==
    /\ res.kind = DuplicateKeyError
    /\ Cardinality({i \in DOMAIN users : users[i].email = "ann@x.io"}) = 1

\* the request carries a Bearer token that signToken made for a stored user
\* and that has not expired
Admissible(headers) ==
    /\ Has(headers, "authorization")
    /\ headers.authorization.scheme = "Bearer"
    /\ headers.authorization.credentials # None
    /\ \E id \in DOMAIN users, iat \in 0..clock :
          /\ headers.authorization.credentials[1] = signToken(id, iat)
          /\ clock <= iat + ExpiresIn

\* C16: behind protect, a request without an Authorization header, with
\* another scheme, without a token, with a token no signToken made, with an
\* expired token or with a token of a user that is not stored is answered
\* with UnauthorizedError, no handler runs and nothing stored changes; any
\* other request is admitted as the stored user the token names, and the
\* handler runs as that user.
C16_ProtectFirst ==
    res = NoResponse =>
        \A headers \in HeaderInputs(users, clock) :
            LET out == protect(users, headers, clock)
                post == workspaceRoutes_post(users, workspaces, headers, ValidWorkspaceData,
                                             nextWorkspaceId, nextUuid, clock)
            IN  IF Admissible(headers)
                THEN LET id == headers.authorization.credentials[1].id
                     IN  /\ out = Ok(users[id], users)
                         /\ post = createWorkspace(workspaces, id, ValidWorkspaceData,
                                                   nextWorkspaceId, nextUuid, Now)
                         /\ \A w \in WorkspaceIdInputs(workspaces) :
                                \A c \in ServiceCalls(workspaces, w) :
                                    protected(users, workspaces, headers, c, w, nextUuid, clock)
                                        = Apply(workspaces, c, id, w, nextUuid, Now)
                ELSE /\ out.kind = UnauthorizedError
                     /\ out.data = None
                     /\ out.db = users
                     /\ post.kind = UnauthorizedError /\ post.db = workspaces
                     /\ \A w \in WorkspaceIdInputs(workspaces) :
                            \A c \in ServiceCalls(workspaces, w) :
                                LET routed == protected(users, workspaces, headers, c, w,
                                                        nextUuid, clock)
                                IN  /\ routed.kind = UnauthorizedError
                                    /\ routed.db = workspaces

\* a request behind protect has been refused for an expired or unverifiable
\* token while a workspace, created by an admitted request, is stored
C16_Witness ==
    /\ res.kind = UnauthorizedError
    /\ res.msg = "Invalid token. Please log in again."
    /\ workspaces # <<>>
    /\ \E headers \in HeaderInputs(users, clock) :
          /\ Has(headers, "authorization")
          /\ headers.authorization.credentials # None
          /\ DOMAIN headers.authorization.credentials[1] = {"id", "iat"}
          /\ headers.authorization.credentials[1].id \in DOMAIN users
          /\ ~Admissible(headers)
          /\ headers.authorization.scheme = "Bearer"

\* the user object of a response carries no password field, and none of its
\* texts is the password typed or the hash stored
NoSecret(user, password) ==
    /\ "password" \notin DOMAIN user
    /\ \A k \in DOMAIN user \ {"id"} : user[k] \notin {password, Hash(password)}

\* the service functions that answer with the workspace document
DocumentCalls == {"getWorkspaceById", "updateWorkspace", "updateProgress", "toggleStatus"}

\* C17: the data of a successful signup and of a successful login is a user
\* without a password field, holding neither the password nor its hash,
\* and a token of id and issue time alone; a workspace document sent by a
\* workspace route names its owner by id and has no password field.
C17_PasswordNeverReturned ==
    res = NoResponse =>
        /\ \A body \in SignupRequests \cup SignupBodies :
               LET out == signup(users, body, nextUserId, clock)
               IN  out.kind = "ok" =>
                       /\ DOMAIN out.data[1] = {"user", "token"}
                       /\ NoSecret(out.data[1].user, body.password)
                       /\ DOMAIN out.data[1].token = {"id", "iat"}
        /\ \A body \in LoginRequests \cup LoginBodies :
               LET out == login(users, body, clock)
               IN  out.kind = "ok" =>
                       /\ DOMAIN out.data[1] = {"user", "token"}
                       /\ NoSecret(out.data[1].user, body.password)
                       /\ DOMAIN out.data[1].token = {"id", "iat"}
        /\ \A u \in DOMAIN users :
               /\ \A w \in DOMAIN workspaces :
                    \A c \in ServiceCalls(workspaces, w) :
                      LET out == Apply(workspaces, c, u, w, nextUuid, Now)
                      IN  (c.op \in DocumentCalls /\ out.kind = "ok") =>
                              /\ "password" \notin DOMAIN out.data[1]
                              /\ out.data[1].userId \in DOMAIN users
               /\ LET all == getAllWorkspaces(workspaces, u).data[1]
                  IN  \A i \in DOMAIN all : "password" \notin DOMAIN all[i]

\* a login has succeeded while the stored user holds the hash of the
\* password, and the user object it answered with has no password
C17_Witness ==
    /\ res.msg = "Login successful"
    /\ \E i \in DOMAIN users :
          /\ users[i].password = Hash("password1")
          /\ LET out == login(users, [email |-> users[i].email, password |-> "password1"],
                              clock)
             IN  out.kind = "ok" /\ out.data[1].user = WithoutPassword(users[i])

\* the bodies of PATCH /workspaces/:id/progress: values in and around the
\* range, and no value
ProgressRequests == {[progress |-> v] : v \in {-1, 0, 12, 100, 101}} \cup {EmptyBody}

\* progress and safety score of every workspace of collection db are in range
InRange(db) ==
    \A w \in DOMAIN db :
        /\ db[w].progress \in 0..ProgressMax
        /\ db[w].safetyScore \in 0..ScoreMax

\* C18: progress and safetyScore of every stored workspace lie in 0..100,
\* and no call of a service function stores a value outside; updateProgress
\* stores the value of the request when it lies in 0..100 and otherwise,
\* also when the request gives no value, fails with BadInput and leaves the
\* workspaces as they were.
C18_ProgressInRange ==
    /\ InRange(workspaces)
    /\ res = NoResponse =>
           \A w \in DOMAIN workspaces :
               LET u == workspaces[w].userId
               IN  /\ \A c \in ServiceCalls(workspaces, w) :
                          InRange(Apply(workspaces, c, u, w, nextUuid, Now).db)
                   /\ \A body \in ProgressRequests :
                          LET out == updateProgressFromBody(workspaces, w, u, body, Now)
                          IN  IF Has(body, "progress") /\ body.progress \in 0..100
                              THEN out.kind = "ok" /\ out.db[w].progress = body.progress
                              ELSE out.kind = BadRequestError /\ out.db = workspaces

\* the ids of the workspaces that were created and are no longer stored
DeletedIds == (1..(nextWorkspaceId - 1)) \ DOMAIN workspaces

\* the calls made on workspace id w after it has been removed from db, with
\* the resource and report ids it had
LaterOutcomes(db, w) ==
    {Apply(Remove(db, w), c, v, w, nextUuid, Now) :
        c \in ServiceCalls(db, w), v \in DOMAIN users}

\* C19 as stated: after a successful deleteWorkspace every call on that
\* workspace id, by any user, fails with NotFound.
C19_LaterAlwaysNotFound ==
    res = NoResponse =>
        \A w \in DOMAIN workspaces :
            \A out \in LaterOutcomes(workspaces, w) : out.kind = NotFoundError

\* C19: deleteWorkspace by the owner removes the workspace document, with
\* the resources, plan and reports embedded in it, and leaves every other
\* workspace as it was; by anyone else, or on an id that is not stored, it
\* fails with NotFound and removes nothing.  Once removed, the id is never
\* handed out again, the workspace is in nobody's getAllWorkspaces, and every
\* call on the id by any user fails and changes nothing: with NotFound, or
\* with BadInput where the function rejects its arguments before it looks
\* the workspace up.
C19_DeleteIsFinal ==
    res = NoResponse =>
        /\ \A w \in WorkspaceIdInputs(workspaces), u \in DOMAIN users :
               LET out == deleteWorkspace(workspaces, w, u)
               IN  IF w \in DOMAIN workspaces /\ workspaces[w].userId = u
                   THEN /\ out.kind = "ok"
                        /\ DOMAIN out.db = DOMAIN workspaces \ {w}
                        /\ \A x \in DOMAIN out.db : out.db[x] = workspaces[x]
                        /\ \A later \in LaterOutcomes(workspaces, w) :
                               /\ later.kind \in {NotFoundError, BadRequestError}
                               /\ later.db = out.db
                        /\ \A v \in DOMAIN users :
                               LET all == getAllWorkspaces(out.db, v).data[1]
                               IN  \A i \in DOMAIN all : all[i].id # w
                   ELSE /\ out.kind = NotFoundError
                        /\ out.db = workspaces
        /\ nextWorkspaceId \notin DeletedIds
        /\ \A w \in DeletedIds, v \in DOMAIN users :
               /\ \A c \in ServiceCalls(workspaces, w) :
                      LET later == Apply(workspaces, c, v, w, nextUuid, Now)
                      IN  /\ later.kind \in {NotFoundError, BadRequestError}
                          /\ later.db = workspaces
               /\ LET all == getAllWorkspaces(workspaces, v).data[1]
                  IN  \A i \in DOMAIN all : all[i].id # w

\* the owner has deleted a workspace: its id was handed out and is not
\* stored, and a call on it is answered NotFound
C19_Witness ==
    /\ res.msg = "Workspace deleted successfully"
    /\ DeletedIds # {}
    /\ \A w \in DeletedIds, v \in DOMAIN users :
           getWorkspaceById(workspaces, w, v).kind = NotFoundError

\* an item of a plan that carries every field the add functions require
WellFormed(item) ==
    /\ \A key \in {"title", "description", "name", "quantity", "specification",
                   "phase", "duration"} \cap DOMAIN item : item[key] # ""
    /\ \/ {"title", "description"} = DOMAIN item
       \/ {"name", "quantity", "specification"} = DOMAIN item
       \/ {"phase", "duration", "tasks"} = DOMAIN item /\ Len(item.tasks) > 0

\* the outcomes of adding each section, material and stage to workspace w
AddOutcomes(db, w, u, now) ==
    {[item |-> section, out |-> addArchitectureSection(db, w, u, section, now)] :
        section \in SectionBodies}
    \cup {[item |-> material, out |-> addArchitectureMaterial(db, w, u, material, now)] :
            material \in MaterialBodies}
    \cup {[item |-> stage, out |-> addArchitectureStage(db, w, u, stage, now)] :
            stage \in StageBodies}

\* what the reads and the other mutations answer on workspace w of db, which
\* its owner u calls and which has no plan
NoPlanAnswers(db, w, u, now) ==
    /\ db[w].architecturePlan = None
    /\ architecture_getArchitecturePlan(db, w, u) = Ok(None, db)
    /\ getArchitectureSections(db, w, u) = Ok(<<>>, db)
    /\ getArchitectureMaterials(db, w, u) = Ok(<<>>, db)
    /\ getArchitectureStages(db, w, u) = Ok(<<>>, db)
    /\ \A planData \in UpdatePlanBodies \cup {EmptyBody} :
           LET out == updateArchitecturePlan(db, w, u, planData, now)
           IN  out.kind = NotFoundError /\ out.db = db
    /\ LET out == deleteArchitecturePlan(db, w, u, now)
       IN  out.kind = NotFoundError /\ out.db = db

\* C20 as stated: on an owned workspace without a plan every add of a
\* section, material or stage fails with NotFound.
C20_AddAlwaysNotFound ==
    \A w \in DOMAIN workspaces :
        workspaces[w].architecturePlan = None =>
            \A add \in AddOutcomes(workspaces, w, workspaces[w].userId, Now) :
                add.out.kind = NotFoundError

\* C20: on an owned workspace without a plan getArchitecturePlan returns
\* null, the sections, materials and stages read as empty lists, update and
\* delete of the plan fail with NotFound, and the add of a section, material
\* or stage fails with NotFound when the item is well formed and with
\* BadInput when it is not; none of them gives the workspace a plan.  A
\* successful deleteArchitecturePlan leaves the workspace without a plan,
\* and all of this holds of it again.
C20_NoPlanState ==
    \A w \in DOMAIN workspaces :
        LET u == workspaces[w].userId
        IN  IF workspaces[w].architecturePlan = None
            THEN /\ NoPlanAnswers(workspaces, w, u, Now)
                 /\ \A add \in AddOutcomes(workspaces, w, u, Now) :
                        /\ add.out.db = workspaces
                        /\ add.out.kind = IF WellFormed(add.item) THEN NotFoundError
                                          ELSE BadRequestError
            ELSE LET deleted == deleteArchitecturePlan(workspaces, w, u, Now)
                 IN  /\ deleted.kind = "ok"
                     /\ NoPlanAnswers(deleted.db, w, u, Now + 1)
                     /\ \A add \in AddOutcomes(deleted.db, w, u, Now + 1) :
                            /\ add.out.db = deleted.db
                            /\ add.out.kind # "ok"

\* the plan of a workspace was saved and then deleted, and the workspace
\* reads as one without a plan
C20_Witness ==
    /\ res = [target |-> "own", kind |-> "ok", msg |-> "deleteArchitecturePlan"]
    /\ \E w \in DOMAIN workspaces :
           /\ workspaces[w].architecturePlan = None
           /\ workspaces[w].updatedAt > workspaces[w].createdAt
           /\ getArchitectureSections(workspaces, w, workspaces[w].userId).data = Some(<<>>)

\* a plan body that carries sections, materials, stages and summary, each of
\* the three arrays with at least one element
PlanComplete(body) ==
    /\ {"sections", "materials", "stages", "summary"} \subseteq DOMAIN body
    /\ Len(body.sections) > 0 /\ Len(body.materials) > 0 /\ Len(body.stages) > 0
    /\ body.summary # ""

\* POST /workspaces/:workspaceId/architecture is served by the workspace
\* routes, mounted first: the bodies of the route and one with every key the
\* workspace service asks for and no stage
HttpPlanBodies ==
    PlanBodies
    \cup {[costEstimate |-> "12M", timeline |-> "6 months", stages |-> <<>>,
           summary |-> "Two-storey block"]}

\* C21: saving a plan over HTTP by the owner succeeds and stores the plan
\* exactly when sections, materials, stages and summary are all present and
\* the three arrays are non-empty; otherwise it fails with BadInput and the
\* stored plan is unchanged.
C21_SavePlanOverHttp ==
    res = NoResponse =>
        \A w \in DOMAIN workspaces, body \in HttpPlanBodies :
            LET out == saveArchitecturePlan(workspaces, w, workspaces[w].userId, body, Now)
            IN  IF PlanComplete(body)
                THEN /\ out.kind = "ok"
                     /\ out.db[w].architecturePlan # None
                     /\ \A key \in {"sections", "materials", "stages", "summary"} :
                            out.db[w].architecturePlan[1][key] = body[key]
                ELSE /\ out.kind = BadRequestError
                     /\ out.db[w].architecturePlan = workspaces[w].architecturePlan

PlanFields == {"sections", "materials", "stages", "summary"}

\* the bodies of an update: those of the route, one for each field alone,
\* two fields together, and the body that provides nothing
PlanUpdates ==
    UpdatePlanBodies
    \cup {[sections |-> <<Section("Roof"), Section("Walls")>>],
          [materials |-> <<Material("Sand")>>],
          [stages |-> <<Stage("Roofing")>>, summary |-> "Roofed"],
          [stages |-> <<>>, summary |-> "Roofed"],
          [summary |-> ""],
          EmptyBody}

\* a provided array is empty, or a provided summary is blank
UpdateRejected(body) ==
    \/ \E key \in {"sections", "materials", "stages"} \cap DOMAIN body : Len(body[key]) = 0
    \/ Has(body, "summary") /\ Trim(body.summary) = ""

ListOf(item) ==
    IF Has(item, "title") THEN "sections"
    ELSE IF Has(item, "name") THEN "materials"
    ELSE "stages"

\* the items given to the add functions: those of the routes, and items with
\* an empty field or without tasks
AddItems ==
    SectionBodies \cup MaterialBodies \cup StageBodies
    \cup {[title |-> "", description |-> "As drawn"],
          [name |-> "Granite", quantity |-> "3 tons", specification |-> ""],
          [phase |-> "Roofing", duration |-> "1 week"]}

\* the add function of the list the item belongs to
AddItem(db, w, u, item, now) ==
    IF ListOf(item) = "sections" THEN addArchitectureSection(db, w, u, item, now)
    ELSE IF ListOf(item) = "materials" THEN addArchitectureMaterial(db, w, u, item, now)
    ELSE addArchitectureStage(db, w, u, item, now)

\* C23: on an existing plan addArchitectureSection, addArchitectureMaterial
\* and addArchitectureStage append the item as the last element of its list,
\* keep the earlier elements in order, leave the other two lists, the
\* summary and createdAt unchanged and return the plan as stored; each fails
\* with BadInput, the workspace unchanged, when a required field of the item
\* is missing or empty or, for a stage, when tasks is missing or empty.
C23_AddAppends ==
    \A w \in DOMAIN workspaces :
        workspaces[w].architecturePlan # None =>
            \A item \in AddItems :
                LET before == workspaces[w].architecturePlan[1]
                    out == AddItem(workspaces, w, workspaces[w].userId, item, Now)
                IN  IF WellFormed(item)
                    THEN /\ out.kind = "ok"
                         /\ LET after == out.db[w].architecturePlan[1]
                            IN  /\ after[ListOf(item)] = Append(before[ListOf(item)], item)
                                /\ \A key \in (PlanFields \cup {"createdAt"}) \ {ListOf(item)} :
                                       after[key] = before[key]
                                /\ out.data = Some(after)
                    ELSE out.kind = BadRequestError /\ out.db = workspaces

\* a section was added to a saved plan: it is the last of two sections
C23_Witness ==
    /\ res = [target |-> "own", kind |-> "ok", msg |-> "addArchitectureSection"]
    /\ \E w \in DOMAIN workspaces :
           /\ workspaces[w].architecturePlan # None
           /\ workspaces[w].architecturePlan[1].sections =
                  <<Section("Foundation"), Section("Walls")>>

\* requests i and j loaded the same stored document, so both loaded before
\* either saved, both returned success, i saved first, and no other request
\* has written
Raced(i, j) ==
    /\ i # j
    /\ pending[i].kind = "ok" /\ pending[j].kind = "ok"
    /\ pending[i].doc = pending[j].doc
    /\ pending[i].savedAt < pending[j].savedAt
    /\ pending[i].resourceId # pending[j].resourceId
    /\ \A k \in DOMAIN pending \ {i, j} : pending[k].savedAt = 0

\* the stored resource a quantity update addressed carries the quantity of
\* the request and the status computed from it
Took(call) ==
    \E w \in DOMAIN workspaces :
        \E n \in DOMAIN workspaces[w].resources :
            LET stored == workspaces[w].resources[n]
            IN  /\ stored.id = call.resourceId
                /\ stored.quantity = call.quantity
                /\ stored.status = calculateResourceStatus(call.quantity, stored.threshold)

\* C24 as stated, on its own example: of two updateResourceQuantity calls on
\* different resources that both loaded before either saved and both
\* returned success, the change of the first writer is gone.
C24_FirstQuantityLost ==
    \A i, j \in DOMAIN pending :
        /\ Raced(i, j)
        /\ pending[i].op = "updateResourceQuantity"
        /\ pending[j].op = "updateResourceQuantity"
        => ~Took(pending[i])

\* C24: two updateResourceQuantity calls on different resources that both
\* loaded before either saved both take effect, since each save writes the
\* fields of its own array element.  An updateResourceQuantity and a
\* deleteResource of another resource that both loaded before either saved
\* and both returned success leave the array the delete had loaded, less
\* the deleted resource: the quantity written first is lost.  In the other
\* order the update does not return success.
C24_LostUpdate ==
    \A i, j \in DOMAIN pending :
        /\ Raced(i, j) /\ pending[i].op = "updateResourceQuantity"
             /\ pending[j].op = "updateResourceQuantity"
             => Took(pending[i]) /\ Took(pending[j])
        /\ Raced(i, j) /\ pending[i].op = "updateResourceQuantity"
             /\ pending[j].op = "deleteResource"
             => /\ ~Took(pending[i])
                /\ LET loaded == pending[j].doc[1]
                   IN  workspaces[loaded.id].resources =
                           Splice(loaded.resources, pending[j].index)
        /\ ~(Raced(i, j) /\ pending[i].op = "deleteResource"
               /\ pending[j].op = "updateResourceQuantity")

\* an updateResourceQuantity and a deleteResource of another resource loaded
\* the same document, the update saved first, both returned success, and the
\* resource holds the quantity it had before the update
C24_Witness ==
    \E i, j \in DOMAIN pending :
        /\ Raced(i, j)
        /\ pending[i].op = "updateResourceQuantity"
        /\ pending[j].op = "deleteResource"
        /\ LET loaded == pending[i].doc[1]
               n == pending[i].index
           IN  /\ loaded.resources[n].quantity # pending[i].quantity
               /\ \E m \in DOMAIN workspaces[loaded.id].resources :
                      workspaces[loaded.id].resources[m] = loaded.resources[n]

RECURSIVE Tally(_, _)
\* how many of the resources, counted from the first, have the status
Tally(resources, status) ==
    IF resources = <<>> THEN 0
    ELSE (IF Head(resources).status = status THEN 1 ELSE 0) + Tally(Tail(resources), status)

RECURSIVE QuantityFrom(_)
\* the quantities added up from the first resource
QuantityFrom(resources) ==
    IF resources = <<>> THEN 0
    ELSE Head(resources).quantity + QuantityFrom(Tail(resources))

\* C25: getResourceStatistics by the owner returns the number of resources,
\* the number with each status and the sum of the quantities, all zero for
\* an empty list; total = critical + low + good; for anyone else it fails
\* with NotFound; the call changes nothing stored.
C25_Statistics ==
    res = NoResponse =>
        \A w \in DOMAIN workspaces, u \in DOMAIN users :
            LET out == getResourceStatistics(workspaces, w, u)
                resources == workspaces[w].resources
            IN  /\ out.db = workspaces
                /\ IF workspaces[w].userId = u
                   THEN /\ out.kind = "ok"
                        /\ out.data[1].total = Len(resources)
                        /\ out.data[1].critical = Tally(resources, "Critical")
                        /\ out.data[1].low = Tally(resources, "Low")
                        /\ out.data[1].good = Tally(resources, "Good")
                        /\ out.data[1].totalQuantity = QuantityFrom(resources)
                        /\ out.data[1].total =
                             out.data[1].critical + out.data[1].low + out.data[1].good
                        /\ resources = <<>> =>
                             out.data[1] = [total |-> 0, critical |-> 0, low |-> 0,
                                            good |-> 0, totalQuantity |-> 0]
                   ELSE out.kind = NotFoundError

\* the statistics of a workspace that holds resources of more than one
\* status and a positive quantity have been returned to its owner
C25_Witness ==
    /\ res.target = "own" /\ res.kind = "ok"
    /\ res.msg = "Resource statistics retrieved successfully"
    /\ \E w \in DOMAIN workspaces :
           LET stats == getResourceStatistics(workspaces, w, workspaces[w].userId).data[1]
           IN  /\ stats.low > 0 /\ stats.critical + stats.good > 0
               /\ stats.totalQuantity > 0

\* no two resources of the list carry the same id
DistinctIds(resources) ==
    \A i, j \in DOMAIN resources : resources[i].id = resources[j].id => i = j

\* every call on a workspace, and an update of the workspace whose body
\* names a resource list
ResourceListCalls(db, w) ==
    ServiceCalls(db, w)
    \cup {[op |-> "updateWorkspace",
           body |-> [resources |-> <<ForeignResource, ForeignResource>>]]}

\* C26: the resource ids within one workspace are pairwise distinct in every
\* state and after every call; deleteResource removes exactly the resource
\* with the given id, keeps the others unchanged and in order, and fails
\* with NotFound, the list unchanged, when no resource has that id.
C26_ResourceIdsDistinct ==
    res = NoResponse =>
        \A w \in DOMAIN workspaces :
            LET u == workspaces[w].userId
                resources == workspaces[w].resources
            IN  /\ DistinctIds(resources)
                /\ \A c \in ResourceListCalls(workspaces, w) :
                       LET out == Apply(workspaces, c, u, w, nextUuid, Now)
                       IN  w \in DOMAIN out.db => DistinctIds(out.db[w].resources)
                /\ \A r \in ResourceIdInputs(workspaces, w) :
                       LET out == deleteResource(workspaces, w, r, u, Now)
                           i == FindIndex(resources, r)
                       IN  IF i = 0
                           THEN out.kind = NotFoundError /\ out.db = workspaces
                           ELSE /\ out.kind = "ok"
                                /\ out.db[w].resources =
                                       SubSeq(resources, 1, i - 1)
                                       \o SubSeq(resources, i + 1, Len(resources))
                                /\ \A n \in DOMAIN out.db[w].resources :
                                       out.db[w].resources[n].id # r

\* the fields an update of the workspace is meant to reach
DescriptiveFields == {"name", "location", "stage", "type", "budget"}

\* the fields it is meant to leave alone
GuardedFields ==
    {"userId", "status", "progress", "safetyScore", "resources", "architecturePlan",
     "safetyReports"}

\* C27: a successful updateWorkspace leaves the owner, status, progress,
\* safetyScore, resources, architecturePlan and safetyReports of the
\* workspace as they were, whatever keys the body carries, and leaves a
\* descriptive field the body does not carry as it was.
C27_UpdateOnlyDescriptive ==
    res = NoResponse =>
        \A w \in DOMAIN workspaces, other \in DOMAIN users :
            \A body \in UpdateBodies(other) :
                LET out == updateWorkspace(workspaces, w, workspaces[w].userId, body, Now)
                IN  out.kind = "ok" =>
                        /\ \A key \in GuardedFields : out.db[w][key] = workspaces[w][key]
                        /\ \A key \in DescriptiveFields \ DOMAIN body :
                               out.db[w][key] = workspaces[w][key]

\* C28 as stated, for the step it needs of updateProgress: a Finished
\* workspace with progress 100 is still at 100 after an updateProgress.
C28_FinishedStaysComplete ==
    res = NoResponse =>
        \A w \in DOMAIN workspaces, progress \in ProgressInputs :
            LET out == updateProgress(workspaces, w, workspaces[w].userId, progress, Now)
            IN  /\ workspaces[w].status = "Finished" /\ workspaces[w].progress = 100
                /\ out.kind = "ok"
                => out.db[w].progress = 100

\* C28: a toggleStatus whose result is Finished leaves the workspace with
\* progress 100 whatever the progress was; a toggleStatus back to Under
\* Construction keeps the progress; updateProgress sets the progress of a
\* Finished workspace like that of any other and keeps its status, so that
\* a workspace can be Finished with progress below 100.
C28_ToggleForcesProgress ==
    res = NoResponse =>
        \A w \in DOMAIN workspaces :
            LET u == workspaces[w].userId
                toggled == toggleStatus(workspaces, w, u, Now)
            IN  /\ toggled.kind = "ok"
                /\ IF workspaces[w].status = "Under Construction"
                   THEN /\ toggled.db[w].status = "Finished"
                        /\ toggled.db[w].progress = 100
                   ELSE /\ toggled.db[w].status = "Under Construction"
                        /\ toggled.db[w].progress = workspaces[w].progress
                /\ \A progress \in ProgressInputs :
                       LET out == updateProgress(workspaces, w, u, progress, Now)
                       IN  IF progress \in 0..100
                           THEN /\ out.kind = "ok"
                                /\ out.db[w].progress = progress
                                /\ out.db[w].status = workspaces[w].status
                           ELSE out.kind = BadRequestError /\ out.db = workspaces

\* a workspace has been toggled to Finished and holds progress 100
C28_Witness ==
    /\ res = [target |-> "own", kind |-> "ok", msg |-> "Status toggled successfully"]
    /\ \E w \in DOMAIN workspaces :
           workspaces[w].status = "Finished" /\ workspaces[w].progress = 100

\* C29: a workspace with an empty report history has safetyScore 100, and a
\* workspace with reports has safetyScore = 100 - riskScore of the first,
\* newest, report.
C29_ScoreFollowsReports ==
    \A w \in DOMAIN workspaces :
        LET reports == workspaces[w].safetyReports
        IN  workspaces[w].safetyScore =
                IF reports = <<>> THEN 100 ELSE 100 - reports[1].riskScore

\* the two outcomes are the same result or the same error, and leave the
\* same stored collection
SameOutcome(a, b) == a.kind = b.kind /\ a.data = b.data /\ a.db = b.db

\* C30: each resource function of the workspace service and the function of
\* the same name of the resource service, called in the same state with the
\* same arguments, by any user on any workspace id, return the same result
\* or the same error kind and leave the same stored state.
C30_ServicesEquivalent ==
    res = NoResponse =>
        \A w \in WorkspaceIdInputs(workspaces), u \in DOMAIN users :
            /\ SameOutcome(getAllResources(workspaces, w, u),
                           resource_getAllResources(workspaces, w, u))
            /\ \A body \in AddBodies :
                   SameOutcome(addResource(workspaces, w, u, body, nextUuid, Now),
                               resource_addResource(workspaces, w, u, body, nextUuid, Now))
            /\ \A list \in BulkLists :
                   SameOutcome(
                       bulkReplaceResources(workspaces, w, u, list, nextUuid, Now),
                       resource_bulkReplaceResources(workspaces, w, u, list, nextUuid, Now))
            /\ \A r \in ResourceIdInputs(workspaces, w) :
                   /\ SameOutcome(deleteResource(workspaces, w, r, u, Now),
                                  resource_deleteResource(workspaces, w, r, u, Now))
                   /\ \A quantity \in QuantityInputs :
                          SameOutcome(
                              updateResourceQuantity(workspaces, w, r, u, quantity, Now),
                              resource_updateResourceQuantity(workspaces, w, r, u,
                                                              quantity, Now))
                   /\ \A body \in UpdateResourceBodies :
                          SameOutcome(
                              updateResource(workspaces, w, r, u, body, Now),
                              resource_updateResource(workspaces, w, r, u, body, Now))

\* a resource has been added through the workspace routes, and in the state
\* it left both services update its quantity to the same stored result
C30_Witness ==
    /\ res = NoResponse
    /\ \E w \in DOMAIN workspaces :
           /\ Len(workspaces[w].resources) > DefaultResourceCount
           /\ LET u == workspaces[w].userId
                  r == workspaces[w].resources[Len(workspaces[w].resources)].id
                  a == updateResourceQuantity(workspaces, w, r, u, 40, Now)
                  b == resource_updateResourceQuantity(workspaces, w, r, u, 40, Now)
              IN  /\ a.kind = "ok" /\ b.kind = "ok"
                  /\ a.db = b.db /\ a.db # workspaces
====
